---------------------------- MODULE Spec2Model ----------------------------
(***************************************************************************)
(* Model of the tax-qualification report service                           *)
(* (src/services/reportService.py) and of the windows that drive it        *)
(* (src/views/reportsWindow.py, src/views/queryWindow.py).                 *)
(*                                                                         *)
(* Documents are partial records (a Python dict that may lack keys);       *)
(* text that the code compares, upper-cases or searches is a sequence of   *)
(* one-character strings; text that is only tested for equality is a       *)
(* string.                                                                 *)
(***************************************************************************)
EXTENDS Integers, Sequences, FiniteSets, TLC

VARIABLES
    datos,          \* collection of qualifications, in storage order
    usuarios,       \* collection of users: client id -> user document
    rut_cache,      \* ReportService.rut_cache: client id -> RUT
    consultas,      \* user-document reads per client id since rut_cache was last emptied
    archivos,       \* the files written by the exports, in order of writing
    reportes,       \* collection of report history entries, in order of addition
    auditoria,      \* the audit events logged, in order
    ventana,        \* the reports window: user, widgets, loaded records
    ret             \* the last call or handler: operation, arguments, result

\* what the exports produce
salidas == <<archivos, reportes, auditoria>>

vars == <<datos, usuarios, rut_cache, consultas, archivos, reportes, auditoria,
          ventana, ret>>

-----------------------------------------------------------------------------
(* Python values *)

\* dict.get(k, def)
Get(d, k, def) == IF k \in DOMAIN d THEN d[k] ELSE def

\* None where a string id is expected
None == "None"

\* None where a RUT (a text) is expected: a "rut" field stored as null
NoneRut == <<"None">>

\* the text "N/A"
NA == <<"N", "/", "A">>

\* d with key k set to v (d[k] = v)
Poner(d, k, v) == [j \in DOMAIN d \cup {k} |-> IF j = k THEN v ELSE d[j]]

\* d without key k
Quitar(d, k) == [j \in DOMAIN d \ {k} |-> d[j]]

-----------------------------------------------------------------------------
(* Text *)

\* code point order of the characters the dates use ('-' precedes the digits)
CharCode(c) ==
    CASE c = "-" -> 45
      [] c = "0" -> 48 [] c = "1" -> 49 [] c = "2" -> 50 [] c = "3" -> 51
      [] c = "4" -> 52 [] c = "5" -> 53 [] c = "6" -> 54 [] c = "7" -> 55
      [] c = "8" -> 56 [] c = "9" -> 57

\* a < b on Python str: lexicographic by code point, a proper prefix is smaller
RECURSIVE StrMenor(_, _)
StrMenor(a, b) ==
    IF b = <<>> THEN FALSE
    ELSE IF a = <<>> THEN TRUE
    ELSE IF Head(a) = Head(b) THEN StrMenor(Tail(a), Tail(b))
    ELSE CharCode(Head(a)) < CharCode(Head(b))

\* str.upper() on one character
UpperChar(c) ==
    CASE c = "k" -> "K"
      [] c = "n" -> "N"
      [] c = "a" -> "A"
      [] OTHER -> c

\* str.upper()
upper(s) == [i \in 1..Len(s) |-> UpperChar(s[i])]

\* str.strip(): leading and trailing blanks removed
RECURSIVE strip(_)
strip(s) ==
    IF s = <<>> THEN s
    ELSE IF Head(s) = " " THEN strip(Tail(s))
    ELSE IF s[Len(s)] = " " THEN strip(SubSeq(s, 1, Len(s) - 1))
    ELSE s

\* sub in s, on Python str
Contiene(sub, s) ==
    \E i \in 0..(Len(s) - Len(sub)) : SubSeq(s, i + 1, i + Len(sub)) = sub

\* one decimal digit as a character
Digito(n) == <<"0", "1", "2", "3", "4", "5", "6", "7", "8", "9">>[n + 1]

\* date.strftime("%Y-%m-%d"): zero-padded, fixed width
strftime(f) ==
    << Digito(f.y \div 1000), Digito((f.y \div 100) % 10),
       Digito((f.y \div 10) % 10), Digito(f.y % 10), "-",
       Digito(f.m \div 10), Digito(f.m % 10), "-",
       Digito(f.d \div 10), Digito(f.d % 10) >>

-----------------------------------------------------------------------------
(* ReportService *)

\* self.MAX_RECORDS
MAX_RECORDS == 10000

\* the first n elements of s (Firestore's limit(n))
Primeros(s, n) == SubSeq(s, 1, IF Len(s) < n THEN Len(s) ELSE n)

\* mutant: a read that raises returns "N/A" without caching it
obtener_rut_cliente_SinCacheEnError(cache, cons, cliente_id, fallan) ==
    IF cliente_id = "" \/ cliente_id = None
    THEN [rut |-> NA, cache |-> cache, cons |-> cons]
    ELSE IF cliente_id \in DOMAIN cache
    THEN [rut |-> cache[cliente_id], cache |-> cache, cons |-> cons]
    ELSE LET leidas == [cons EXCEPT ![cliente_id] = @ + 1]
         IN  IF cliente_id \in fallan
             THEN [rut |-> NA, cache |-> cache, cons |-> leidas]
             ELSE IF cliente_id \in DOMAIN usuarios
             THEN LET rut == Get(usuarios[cliente_id], "rut", NA)
                  IN  [rut |-> rut, cache |-> Poner(cache, cliente_id, rut),
                       cons |-> leidas]
             ELSE [rut |-> NA, cache |-> Poner(cache, cliente_id, NA), cons |-> leidas]

\* ReportService.obtener_rut_cliente on the cache `cache` with read counts
\* `cons`; the read of a client id in `fallan` raises.  Yields the RUT
\* returned, the cache and the read counts afterwards.
obtener_rut_cliente(cache, cons, cliente_id, fallan) ==
    IF cliente_id = "" \/ cliente_id = None
    THEN [rut |-> NA, cache |-> cache, cons |-> cons]
    ELSE IF cliente_id \in DOMAIN cache
    THEN [rut |-> cache[cliente_id], cache |-> cache, cons |-> cons]
    ELSE LET leidas == [cons EXCEPT ![cliente_id] = @ + 1]
         IN  IF cliente_id \in fallan
             THEN [rut |-> NA, cache |-> Poner(cache, cliente_id, NA), cons |-> leidas]
             ELSE IF cliente_id \in DOMAIN usuarios
             THEN LET rut == Get(usuarios[cliente_id], "rut", NA)
                  IN  [rut |-> rut, cache |-> Poner(cache, cliente_id, rut),
                       cons |-> leidas]
             ELSE [rut |-> NA, cache |-> Poner(cache, cliente_id, NA), cons |-> leidas]

\* ReportService.obtener_rut_cliente called with a value of any type:
\*   [t |-> "str", v |-> id]   a str
\*   [t |-> "int", n |-> n]    an int
\*   [t |-> "lista"]           a non-empty list
\* A list is unhashable: `cliente_id in self.rut_cache` (line 152, before
\* the try) raises TypeError.  An int other than 0 is not in the cache and
\* is no document path: the read of line 156 raises; in the handler the
\* slice cliente_id[:8] (line 169) raises TypeError before the cache is
\* written, and that exception leaves the method.
obtener_rut_cliente_de(valor, cache, cons, fallan) ==
    IF valor.t = "str"
    THEN LET r == obtener_rut_cliente(cache, cons, valor.v, fallan)
         IN  [raised |-> FALSE, rut |-> r.rut, cache |-> r.cache, cons |-> r.cons]
    ELSE IF valor.t = "int" /\ valor.n = 0
    THEN [raised |-> FALSE, rut |-> NA, cache |-> cache, cons |-> cons]
    ELSE [raised |-> TRUE, rut |-> NA, cache |-> cache, cons |-> cons]

\* truthiness of filtros.get(k) for a key holding a string
Dado(filtros, k) == k \in DOMAIN filtros /\ filtros[k] # ""

\* truthiness of filtros.get(k, "") for a key holding a text
DadoTexto(filtros, k) == k \in DOMAIN filtros /\ filtros[k] # <<>>

\* lines 75-80: the record is kept by the date-from filter
PasaFechaDesde(data, filtros) ==
    IF ~ ("fecha_desde" \in DOMAIN filtros) THEN TRUE
    ELSE LET fecha_declaracion == Get(data, "fechaDeclaracion", <<>>)
         IN  IF fecha_declaracion = <<>> THEN TRUE
             ELSE ~ StrMenor(fecha_declaracion, strftime(filtros.fecha_desde))

\* mutant: the date-to filter compares against the date-from bound
PasaFechaHasta_Desde(data, filtros) ==
    IF ~ ("fecha_desde" \in DOMAIN filtros) THEN TRUE
    ELSE LET fecha_declaracion == Get(data, "fechaDeclaracion", <<>>)
         IN  IF fecha_declaracion = <<>> THEN TRUE
             ELSE ~ StrMenor(fecha_declaracion, strftime(filtros.fecha_desde))

\* lines 82-87: the record is kept by the date-to filter
PasaFechaHasta(data, filtros) ==
    IF ~ ("fecha_hasta" \in DOMAIN filtros) THEN TRUE
    ELSE LET fecha_declaracion == Get(data, "fechaDeclaracion", <<>>)
         IN  IF fecha_declaracion = <<>> THEN TRUE
             ELSE ~ StrMenor(strftime(filtros.fecha_hasta), fecha_declaracion)

\* lines 90-92
PasaTipo(data, filtros) ==
    Dado(filtros, "tipo_impuesto")
        => Get(data, "tipoImpuesto", "") = filtros.tipo_impuesto

\* lines 95-97
PasaPais(data, filtros) ==
    Dado(filtros, "pais") => Get(data, "pais", "") = filtros.pais

\* lines 103-106: the record is kept by the RUT filter, given its resolved RUT
PasaRut(rut_cliente, filtros) ==
    Contiene(upper(strip(filtros.rut_cliente)), rut_cliente)

\* lines 109-114
PasaEstado(data, filtros) ==
    LET es_local == Get(data, "esLocal", FALSE)
        estado_filtro == Get(filtros, "estado", "ambos")
    IN  /\ ~ (estado_filtro = "local" /\ ~ es_local)
        /\ ~ (estado_filtro = "bolsa" /\ es_local)

\* mutant: a local record is shown whoever owns it
PermisoVer_SinPropietario(data, usuario_id, rol) == TRUE

\* lines 117-126: the role may see the record
PermisoVer(data, usuario_id, rol) ==
    LET es_local == Get(data, "esLocal", FALSE)
        es_propietario == Get(data, "propietarioRegistroId", None) = usuario_id
    IN  \/ rol = "administrador"
        \/ ~ es_local
        \/ es_propietario

\* lines 70-126: one iteration of the loop over the streamed documents.
\* st = [res, cache, cons, exc]; exc is set when the iteration raises.
PasoFiltrado(data, st, ll) ==
    IF ~ (/\ PasaFechaDesde(data, ll.filtros) /\ PasaFechaHasta(data, ll.filtros)
          /\ PasaTipo(data, ll.filtros) /\ PasaPais(data, ll.filtros))
    THEN st
    ELSE LET conRut == DadoTexto(ll.filtros, "rut_cliente")
             r == IF conRut
                  THEN obtener_rut_cliente(st.cache, st.cons,
                                           Get(data, "clienteId", ""), ll.fallan)
                  ELSE [rut |-> NA, cache |-> st.cache, cons |-> st.cons]
             st2 == [st EXCEPT !.cache = r.cache, !.cons = r.cons]
         IN  IF conRut /\ r.rut = NoneRut
             THEN [st2 EXCEPT !.exc = TRUE]      \* `in` on None: TypeError
             ELSE IF conRut /\ ~ PasaRut(r.rut, ll.filtros) THEN st2
             ELSE IF ~ PasaEstado(data, ll.filtros) THEN st2
             ELSE IF PermisoVer(data, ll.usuario_id, ll.rol)
             THEN [st2 EXCEPT !.res = Append(@, data)]
             ELSE st2

\* lines 70-126: the loop over docs[i..j], in order, until an iteration
\* raises (the range is walked by halves, each half appending to the
\* records kept before it, to bound the depth and the cost of evaluation)
RECURSIVE RecorrerDocs(_, _, _, _, _)
RecorrerDocs(docs, i, j, st, ll) ==
    IF i > j \/ st.exc THEN st
    ELSE IF i = j THEN PasoFiltrado(docs[i], st, ll)
    ELSE LET m == (i + j) \div 2
             a == RecorrerDocs(docs, i, m, [st EXCEPT !.res = <<>>], ll)
             b == RecorrerDocs(docs, m + 1, j, [a EXCEPT !.res = <<>>], ll)
         IN  [b EXCEPT !.res = st.res \o a.res \o b.res]

\* the documents the query streams: activo == True, limit MAX_RECORDS
DocsActivos ==
    Primeros(SelectSeq(datos, LAMBDA d : Get(d, "activo", FALSE) = TRUE), MAX_RECORDS)

\* ReportService.obtener_datos_filtrados.  ll = [filtros, usuario_id, rol,
\* fallan, falla_consulta]; falla_consulta: the stream of the query raises.
obtener_datos_filtrados(ll, cache, cons) ==
    IF ll.falla_consulta
    THEN [res |-> <<>>, cache |-> cache, cons |-> cons, exc |-> TRUE]
    ELSE LET st == RecorrerDocs(DocsActivos, 1, Len(DocsActivos),
                       [res |-> <<>>, cache |-> cache, cons |-> cons, exc |-> FALSE],
                       ll)
         IN  IF st.exc THEN [st EXCEPT !.res = <<>>] ELSE st

\* mutant: only the records the identity owns are kept
RECURSIVE DatosValidos_SoloPropios(_, _)
DatosValidos_SoloPropios(calificaciones, usuario_id) ==
    IF calificaciones = <<>> THEN <<>>
    ELSE LET dato == Head(calificaciones)
             resto == DatosValidos_SoloPropios(Tail(calificaciones), usuario_id)
         IN  IF Get(dato, "propietarioRegistroId", None) = usuario_id
             THEN <<dato>> \o resto
             ELSE resto

\* lines 190-198: the loop of validar_permisos_exportacion
RECURSIVE DatosValidos(_, _)
DatosValidos(calificaciones, usuario_id) ==
    IF calificaciones = <<>> THEN <<>>
    ELSE LET dato == Head(calificaciones)
             resto == DatosValidos(Tail(calificaciones), usuario_id)
         IN  IF ~ Get(dato, "esLocal", FALSE) THEN <<dato>> \o resto
             ELSE IF Get(dato, "propietarioRegistroId", None) = usuario_id
             THEN <<dato>> \o resto
             ELSE resto

\* a validation that lets every record of the list through
validar_permisos_exportacion_SinValidar(calificaciones, usuario_id, rol) ==
    calificaciones

\* ReportService.validar_permisos_exportacion
validar_permisos_exportacion(calificaciones, usuario_id, rol) ==
    IF rol = "administrador" THEN calificaciones
    ELSE DatosValidos(calificaciones, usuario_id)

-----------------------------------------------------------------------------
(* ReportService: normalization and export *)

\* Numbers are fixed-point, in units of 0.0001 (1.0 is 10000).  A Python
\* value that float() is applied to is one of
\*   [t |-> "num", v |-> n]    an int or float
\*   [t |-> "txt", v |-> n]    a str that float() parses
\*   [t |-> "mal"]             a str that float() rejects (ValueError)
\*   [t |-> "none"]            None (TypeError)
\*   [t |-> "lista", v |-> s]  a list of such values (TypeError)
Num(n) == [t |-> "num", v |-> n]

\* float(x): ok is FALSE when it raises ValueError or TypeError
Float(x) ==
    IF x.t \in {"num", "txt"} THEN [ok |-> TRUE, v |-> x.v]
    ELSE [ok |-> FALSE, v |-> 0]

\* a dict without keys, for the factors (keyed by i for "factor_i")
SinFactores == [i \in {} |-> Num(0)]

\* a positional factores numbered from 0 (enumerate without its start)
FactoresDict_DesdeCero(cal) ==
    LET raw == Get(cal, "factores", [forma |-> "dict", v |-> SinFactores])
    IN  IF raw.forma = "dict" THEN raw.v
        ELSE IF raw.forma = "lista"
        THEN [i \in 0..((IF Len(raw.v) < 19 THEN Len(raw.v) ELSE 19) - 1) |-> raw.v[i + 1]]
        ELSE SinFactores

\* lines 223-236: factores as a dict keyed factor_1..factor_19.  The field
\* is [forma |-> "dict", v |-> dict], [forma |-> "lista", v |-> sequence]
\* or [forma |-> "otro"] (any other type).
FactoresDict(cal) ==
    LET raw == Get(cal, "factores", [forma |-> "dict", v |-> SinFactores])
    IN  IF raw.forma = "dict" THEN raw.v
        ELSE IF raw.forma = "lista"
        THEN [i \in 1..(IF Len(raw.v) < 19 THEN Len(raw.v) ELSE 19) |-> raw.v[i]]
        ELSE SinFactores

RECURSIVE SumaFloat(_, _, _)
SumaFloat(fd, i, hasta) ==
    IF i > hasta THEN 0
    ELSE Float(Get(fd, i, Num(0))).v + SumaFloat(fd, i + 1, hasta)

\* lines 239-247: the sum of factors 8..19; 0.0 when float() raises on one
Suma8_19(fd) ==
    IF \E i \in 8..19 : ~ Float(Get(fd, i, Num(0))).ok THEN 0
    ELSE SumaFloat(fd, 8, 19)

\* a column that is 0.0 for a list-valued factor
FactorColumna_SinLista(fd, i) == Float(Get(fd, i, Num(0))).v

\* lines 259-269: the value of column "Factor i"
FactorColumna(fd, i) ==
    LET valor == Get(fd, i, Num(0))
        primero == IF valor.t = "lista"
                   THEN (IF Len(valor.v) > 0 THEN valor.v[1] ELSE Num(0))
                   ELSE valor
    IN  Float(primero).v

\* the names of the factor columns
ColumnasFactor ==
    << "Factor 1", "Factor 2", "Factor 3", "Factor 4", "Factor 5", "Factor 6",
       "Factor 7", "Factor 8", "Factor 9", "Factor 10", "Factor 11", "Factor 12",
       "Factor 13", "Factor 14", "Factor 15", "Factor 16", "Factor 17",
       "Factor 18", "Factor 19" >>

\* str(rut): None prints as "None"
StrRut(rut) == IF rut = NoneRut THEN <<"N", "o", "n", "e">> ELSE rut

\* a validity that excludes the boundary
Valido_Estricto(suma_8_19) == IF suma_8_19 < 10000 THEN "Sí" ELSE "No (>1.0)"

\* line 274: the validity of a sum of factors 8..19 (1.0 is 10000)
Valido(suma_8_19) == IF suma_8_19 <= 10000 THEN "Sí" ELSE "No (>1.0)"

\* lines 250-276: the row of one record, as the ordered list of its
\* columns; raised is TRUE when float(montoDeclarado) raises
Fila(cal, rut_cliente) ==
    LET fd == FactoresDict(cal)
        monto == Float(Get(cal, "montoDeclarado", Num(0)))
        suma_8_19 == Suma8_19(fd)
    IN  [raised |-> ~ monto.ok,
         fila |->
            << [col |-> "RUT Cliente", val |-> StrRut(rut_cliente)],
               [col |-> "Fecha Declaración", val |-> Get(cal, "fechaDeclaracion", <<>>)],
               [col |-> "Tipo Impuesto", val |-> Get(cal, "tipoImpuesto", "")],
               [col |-> "País", val |-> Get(cal, "pais", "")],
               [col |-> "Monto Declarado", val |-> monto.v] >>
            \o [i \in 1..19 |-> [col |-> ColumnasFactor[i], val |-> FactorColumna(fd, i)]]
            \o << [col |-> "Suma Factores 8-19", val |-> suma_8_19],
                  [col |-> "Estado",
                   val |-> IF Get(cal, "esLocal", FALSE) THEN "Local" ELSE "Bolsa"],
                  [col |-> "Válido", val |-> Valido(suma_8_19)] >>]

\* a loop that a failing record ends
RECURSIVE PrepararFilas_AbortaLote(_, _, _)
PrepararFilas_AbortaLote(calificaciones, st, fallan) ==
    IF calificaciones = <<>> THEN st
    ELSE LET cal == Head(calificaciones)
             r == obtener_rut_cliente(st.cache, st.cons,
                                      Get(cal, "clienteId", ""), fallan)
             f == Fila(cal, r.rut)
             st2 == [filas |-> IF f.raised THEN st.filas ELSE Append(st.filas, f.fila),
                     cache |-> r.cache, cons |-> r.cons]
         IN  IF f.raised THEN st2
             ELSE PrepararFilas_AbortaLote(Tail(calificaciones), st2, fallan)

\* lines 217-282: the loop of preparar_dataframe; st = [filas, cache, cons]
RECURSIVE PrepararFilas(_, _, _)
PrepararFilas(calificaciones, st, fallan) ==
    IF calificaciones = <<>> THEN st
    ELSE LET cal == Head(calificaciones)
             r == obtener_rut_cliente(st.cache, st.cons,
                                      Get(cal, "clienteId", ""), fallan)
             f == Fila(cal, r.rut)
             st2 == [filas |-> IF f.raised THEN st.filas ELSE Append(st.filas, f.fila),
                     cache |-> r.cache, cons |-> r.cons]
         IN  PrepararFilas(Tail(calificaciones), st2, fallan)

\* ReportService.preparar_dataframe: the rows of the DataFrame (none: the
\* empty DataFrame), the cache and the read counts afterwards
preparar_dataframe(calificaciones, cache, cons, fallan) ==
    PrepararFilas(calificaciones, [filas |-> <<>>, cache |-> cache, cons |-> cons],
                  fallan)

\* s.split(sep)[-1]
RECURSIVE UltimoSegmento(_, _)
UltimoSegmento(s, sep) ==
    IF \E i \in 1..Len(s) : s[i] = sep
    THEN UltimoSegmento(Tail(s), sep)
    ELSE s

\* lines 357, 581: the file name of a path
NombreArchivo(file_path) == UltimoSegmento(UltimoSegmento(file_path, "/"), "\\")

\* lines 623-639: the filters as values Firestore stores: a date becomes a
\* datetime at midnight, strings pass unchanged
FiltrosFirestore(filtros) ==
    [k \in DOMAIN filtros |->
        IF k \in {"fecha_desde", "fecha_hasta"}
        THEN [y |-> filtros[k].y, m |-> filtros[k].m, d |-> filtros[k].d,
              hora |-> 0, minuto |-> 0, segundo |-> 0]
        ELSE filtros[k]]

\* a registrar_reporte that keeps only the newest entry of the history
registrar_reporte_SoloUltimo(rr, historial, auditados, falla) ==
    LET reporte_data ==
            [usuarioGeneradorId |-> rr.usuario_id, tipoReporte |-> rr.tipo_reporte,
             filtrosAplicados |-> FiltrosFirestore(rr.filtros),
             totalRegistros |-> rr.total_registros, formato |-> rr.formato,
             nombreArchivo |-> rr.nombre_archivo,
             fechaGeneracion |-> Len(historial) + 1]
        evento ==
            [action |-> "REPORTE_GENERADO", user_id |-> rr.usuario_id,
             details |-> [tipo |-> rr.tipo_reporte, formato |-> rr.formato,
                          registros |-> rr.total_registros,
                          archivo |-> rr.nombre_archivo]]
    IN  IF falla = "add"
        THEN [ok |-> FALSE, historial |-> historial, auditados |-> auditados]
        ELSE IF falla = "audit"
        THEN [ok |-> FALSE, historial |-> <<reporte_data>>,
              auditados |-> auditados]
        ELSE [ok |-> TRUE, historial |-> <<reporte_data>>,
              auditados |-> Append(auditados, evento)]

\* a registrar_reporte that logs the audit event before it stores the entry
registrar_reporte_AuditaAntes(rr, historial, auditados, falla) ==
    LET reporte_data ==
            [usuarioGeneradorId |-> rr.usuario_id, tipoReporte |-> rr.tipo_reporte,
             filtrosAplicados |-> FiltrosFirestore(rr.filtros),
             totalRegistros |-> rr.total_registros, formato |-> rr.formato,
             nombreArchivo |-> rr.nombre_archivo,
             fechaGeneracion |-> Len(historial) + 1]
        evento ==
            [action |-> "REPORTE_GENERADO", user_id |-> rr.usuario_id,
             details |-> [tipo |-> rr.tipo_reporte, formato |-> rr.formato,
                          registros |-> rr.total_registros,
                          archivo |-> rr.nombre_archivo]]
    IN  IF falla = "audit"
        THEN [ok |-> FALSE, historial |-> historial, auditados |-> auditados]
        ELSE IF falla = "add"
        THEN [ok |-> FALSE, historial |-> historial,
              auditados |-> Append(auditados, evento)]
        ELSE [ok |-> TRUE, historial |-> Append(historial, reporte_data),
              auditados |-> Append(auditados, evento)]

\* ReportService.registrar_reporte on the history `historial` and the audit
\* trail `auditados`.  falla = "add": reportes_ref.add raises; "audit":
\* log_audit raises; "no": neither.  Yields the value returned, the
\* history and the audit trail afterwards.
registrar_reporte(rr, historial, auditados, falla) ==
    LET reporte_data ==
            [usuarioGeneradorId |-> rr.usuario_id, tipoReporte |-> rr.tipo_reporte,
             filtrosAplicados |-> FiltrosFirestore(rr.filtros),
             totalRegistros |-> rr.total_registros, formato |-> rr.formato,
             nombreArchivo |-> rr.nombre_archivo,
             fechaGeneracion |-> Len(historial) + 1]
        evento ==
            [action |-> "REPORTE_GENERADO", user_id |-> rr.usuario_id,
             details |-> [tipo |-> rr.tipo_reporte, formato |-> rr.formato,
                          registros |-> rr.total_registros,
                          archivo |-> rr.nombre_archivo]]
    IN  IF falla = "add"
        THEN [ok |-> FALSE, historial |-> historial, auditados |-> auditados]
        ELSE IF falla = "audit"
        THEN [ok |-> FALSE, historial |-> Append(historial, reporte_data),
              auditados |-> auditados]
        ELSE [ok |-> TRUE, historial |-> Append(historial, reporte_data),
              auditados |-> Append(auditados, evento)]

\* lines 691, 696: limit(50) of the history query
LIMITE_HISTORIAL == 50

\* order_by("fechaGeneracion", direction="DESCENDING"): the entry at
\* position r is the one with r - 1 entries before it (more recent ones;
\* entries of one same time keep their storage order)
OrdenDescendente(s) ==
    LET Antes(j, i) == \/ s[j].fechaGeneracion > s[i].fechaGeneracion
                       \/ /\ s[j].fechaGeneracion = s[i].fechaGeneracion
                          /\ j < i
    IN  [r \in 1..Len(s) |->
            s[CHOOSE i \in 1..Len(s) :
                Cardinality({j \in 1..Len(s) : Antes(j, i)}) = r - 1]]

\* lines 701-704: the documents of the history as dicts, with _id the
\* document id (the position in the collection)
DocsHistorial(historial) ==
    [i \in 1..Len(historial) |-> Poner(historial[i], "_id", i)]

\* a history query that gives every role the entries of all users
obtener_historial_reportes_SinFiltro(usuario_id, rol, historial, falla) ==
    IF falla \/ usuario_id = None THEN <<>>
    ELSE Primeros(OrdenDescendente(DocsHistorial(historial)), LIMITE_HISTORIAL)

\* ReportService.obtener_historial_reportes on the history `historial`;
\* falla: the stream of the query raises.  With usuario_id None the
\* slice usuario_id[:8] of line 706 raises TypeError.  Either exception is
\* caught (lines 709-711) and the result is the empty list.
obtener_historial_reportes(usuario_id, rol, historial, falla) ==
    LET docs == DocsHistorial(historial)
        query == IF rol \in {"administrador", "auditor_tributario"} THEN docs
                 ELSE SelectSeq(docs, LAMBDA d : d.usuarioGeneradorId = usuario_id)
    IN  IF falla \/ usuario_id = None THEN <<>>
        ELSE Primeros(OrdenDescendente(query), LIMITE_HISTORIAL)

\* The result dictionaries of an export
Fracaso(message) == [success |-> FALSE, message |-> message]
Exito(formato, file_path, n) ==
    [success |-> TRUE,
     message |-> IF formato = "CSV" THEN "CSV generado exitosamente"
                 ELSE "Excel generado exitosamente",
     file_path |-> file_path, total_registros |-> n]

\* the progress values reported, when a callback was given
Progreso(ex, valores) == IF ex.con_progreso THEN valores ELSE <<>>

\* arguments of registrar_reporte that name the file by its whole path
ArgsRegistro_RutaCompleta(ex, calificaciones, formato) ==
    [usuario_id |-> ex.usuario_id, tipo_reporte |-> "exportacion_calificaciones",
     filtros |-> ex.filtros, total_registros |-> Len(calificaciones),
     formato |-> formato, nombre_archivo |-> ex.file_path]

\* lines 351-358, 575-582: the arguments of registrar_reporte
ArgsRegistro(ex, calificaciones, formato) ==
    [usuario_id |-> ex.usuario_id, tipo_reporte |-> "exportacion_calificaciones",
     filtros |-> ex.filtros, total_registros |-> Len(calificaciones),
     formato |-> formato, nombre_archivo |-> NombreArchivo(ex.file_path)]

\* an export to CSV that does not test its list for emptiness first
exportar_csv_SinComprobarVacio(ex, e) ==
    LET validas == validar_permisos_exportacion(ex.calificaciones, ex.usuario_id, ex.rol)
        df == preparar_dataframe(validas, e.cache, e.cons, ex.fallan)
        reg == registrar_reporte(ArgsRegistro(ex, validas, "CSV"), e.reportes,
                                 e.auditoria, ex.falla_registro)
    IN  IF validas = <<>>
        THEN [result |-> Fracaso("No tiene permisos para exportar estos datos"),
              progreso |-> <<>>, cache |-> e.cache, cons |-> e.cons,
              archivos |-> e.archivos, reportes |-> e.reportes,
              auditoria |-> e.auditoria]
        ELSE IF ex.falla_io
        THEN [result |-> Fracaso("Error al exportar"),
              progreso |-> Progreso(ex, <<20, 50>>), cache |-> df.cache,
              cons |-> df.cons, archivos |-> e.archivos, reportes |-> e.reportes,
              auditoria |-> e.auditoria]
        ELSE [result |-> Exito("CSV", ex.file_path, Len(validas)),
              progreso |-> Progreso(ex, <<20, 50, 80, 100>>),
              cache |-> df.cache, cons |-> df.cons,
              archivos |-> Append(e.archivos,
                                  [file_path |-> ex.file_path, formato |-> "CSV",
                                   filas |-> df.filas]),
              reportes |-> reg.historial, auditoria |-> reg.auditados]

\* ReportService.exportar_csv.  ex holds the arguments (file_path,
\* calificaciones, filtros, usuario_id, rol, con_progreso) and what the
\* environment does in the call (fallan: the user documents whose read
\* raises; falla_io: to_csv raises; falla_registro: see registrar_reporte).
\* e holds the cache, the read counts, the files written, the history and
\* the audit trail before the call; the value holds them afterwards, with
\* the result and the progress reported.
exportar_csv(ex, e) ==
    LET sin_cambio(result, progreso) ==
            [result |-> result, progreso |-> progreso, cache |-> e.cache,
             cons |-> e.cons, archivos |-> e.archivos, reportes |-> e.reportes,
             auditoria |-> e.auditoria]
        validas == validar_permisos_exportacion(ex.calificaciones, ex.usuario_id, ex.rol)
        df == preparar_dataframe(validas, e.cache, e.cons, ex.fallan)
        reg == registrar_reporte(ArgsRegistro(ex, validas, "CSV"), e.reportes,
                                 e.auditoria, ex.falla_registro)
    IN  IF ex.calificaciones = <<>>
        THEN sin_cambio(Fracaso("No hay datos para exportar"), <<>>)
        ELSE IF validas = <<>>
        THEN sin_cambio(Fracaso("No tiene permisos para exportar estos datos"), <<>>)
        ELSE IF ex.falla_io
        THEN [sin_cambio(Fracaso("Error al exportar"), Progreso(ex, <<20, 50>>))
                EXCEPT !.cache = df.cache, !.cons = df.cons]
        ELSE [result |-> Exito("CSV", ex.file_path, Len(validas)),
              progreso |-> Progreso(ex, <<20, 50, 80, 100>>),
              cache |-> df.cache, cons |-> df.cons,
              archivos |-> Append(e.archivos,
                                  [file_path |-> ex.file_path, formato |-> "CSV",
                                   filas |-> df.filas]),
              reportes |-> reg.historial, auditoria |-> reg.auditados]

\* lines 530-544: the statistics of the summary sheet, computed on the raw
\* fields; raised is TRUE when a sum meets a value that is not a number or
\* factores is not a dict
RECURSIVE MontoTotal(_)
MontoTotal(calificaciones) ==
    IF calificaciones = <<>> THEN 0
    ELSE Get(Head(calificaciones), "montoDeclarado", Num(0)).v
         + MontoTotal(Tail(calificaciones))

RECURSIVE SumaCruda(_, _, _)
SumaCruda(fd, i, hasta) ==
    IF i > hasta THEN 0 ELSE Get(fd, i, Num(0)).v + SumaCruda(fd, i + 1, hasta)

FactoresCrudos(c) == Get(c, "factores", [forma |-> "dict", v |-> SinFactores])

Estadisticas(calificaciones) ==
    LET idx == 1..Len(calificaciones)
        raised ==
            \/ \E k \in idx : Get(calificaciones[k], "montoDeclarado", Num(0)).t # "num"
            \/ \E k \in idx : FactoresCrudos(calificaciones[k]).forma # "dict"
            \/ \E k \in idx : \E i \in 8..19 :
                   Get(FactoresCrudos(calificaciones[k]).v, i, Num(0)).t # "num"
        locales == Cardinality({k \in idx : Get(calificaciones[k], "esLocal", FALSE)})
        validos == Cardinality({k \in idx :
                       SumaCruda(FactoresCrudos(calificaciones[k]).v, 8, 19) <= 10000})
    IN  IF raised THEN [raised |-> TRUE]
        ELSE [raised |-> FALSE, locales |-> locales,
              bolsa |-> Len(calificaciones) - locales, validos |-> validos,
              invalidos |-> Len(calificaciones) - validos,
              total_monto |-> MontoTotal(calificaciones)]

\* lines 505-516: the metadata of the summary sheet
Metadatos(ex, calificaciones) ==
    [usuario |-> ex.usuario_id, total_registros |-> Len(calificaciones),
     fecha_desde |-> IF "fecha_desde" \in DOMAIN ex.filtros
                     THEN strftime(ex.filtros.fecha_desde) ELSE <<"Sin filtro">>,
     fecha_hasta |-> IF "fecha_hasta" \in DOMAIN ex.filtros
                     THEN strftime(ex.filtros.fecha_hasta) ELSE <<"Sin filtro">>,
     tipo_impuesto |-> Get(ex.filtros, "tipo_impuesto", "Todos"),
     pais |-> Get(ex.filtros, "pais", "Todos"),
     estado |-> Get(ex.filtros, "estado", "Ambos")]

\* lines 443-464: the data sheet: the rows of the DataFrame, each with the
\* positions of its highlighted cells (a factor column above 1.0)
HojaDatos(filas) ==
    [k \in 1..Len(filas) |->
        [fila |-> filas[k],
         resaltadas |-> {c \in 6..25 : filas[k][c].val > 10000}]]

\* ReportService.exportar_excel, with the arguments and the value of
\* exportar_csv; falla_io: wb.save raises
exportar_excel(ex, e) ==
    LET sin_cambio(result, progreso) ==
            [result |-> result, progreso |-> progreso, cache |-> e.cache,
             cons |-> e.cons, archivos |-> e.archivos, reportes |-> e.reportes,
             auditoria |-> e.auditoria]
        validas == validar_permisos_exportacion(ex.calificaciones, ex.usuario_id, ex.rol)
        df == preparar_dataframe(validas, e.cache, e.cons, ex.fallan)
        stats == Estadisticas(validas)
        reg == registrar_reporte(ArgsRegistro(ex, validas, "Excel"), e.reportes,
                                 e.auditoria, ex.falla_registro)
    IN  IF ex.calificaciones = <<>>
        THEN sin_cambio(Fracaso("No hay datos para exportar"), <<>>)
        ELSE IF validas = <<>>
        THEN sin_cambio(Fracaso("No tiene permisos para exportar estos datos"), <<>>)
        ELSE IF stats.raised
        THEN [sin_cambio(Fracaso("Error al exportar"), Progreso(ex, <<10, 30, 75>>))
                EXCEPT !.cache = df.cache, !.cons = df.cons]
        ELSE IF ex.falla_io
        THEN [sin_cambio(Fracaso("Error al exportar"), Progreso(ex, <<10, 30, 75, 90>>))
                EXCEPT !.cache = df.cache, !.cons = df.cons]
        ELSE [result |-> Exito("Excel", ex.file_path, Len(validas)),
              progreso |-> Progreso(ex, <<10, 30, 75, 90, 95, 100>>),
              cache |-> df.cache, cons |-> df.cons,
              archivos |-> Append(e.archivos,
                                  [file_path |-> ex.file_path, formato |-> "Excel",
                                   filas |-> df.filas, hoja |-> HojaDatos(df.filas),
                                   metadatos |-> Metadatos(ex, validas),
                                   estadisticas |-> stats]),
              reportes |-> reg.historial, auditoria |-> reg.auditados]

-----------------------------------------------------------------------------
(* The stored data and the inputs of the calls *)

\* bound: documents in the qualifications collection
MaxDatos == 2

\* all sequences over S of length at most n
SeqsHasta(S, n) == UNION {[1..k -> S] : k \in 0..n}

\* declaration dates and filter dates (datetime.date)
F1 == [y |-> 2024, m |-> 2, d |-> 9]
F2 == [y |-> 2024, m |-> 2, d |-> 10]
F3 == [y |-> 2024, m |-> 11, d |-> 1]

\* RUTs of the user documents
Rut1 == <<"1", "-", "9">>
Rut2 == <<"2", "-", "k">>

\* users collection: c1 and c2 have a RUT, c3 has no rut field, c4 has
\* rut stored as null; c5 has no document
UsuariosIniciales ==
    [c \in {"c1", "c2", "c3", "c4"} |->
        CASE c = "c1" -> [rol |-> "cliente", rut |-> Rut1]
          [] c = "c2" -> [rol |-> "cliente", rut |-> Rut2]
          [] c = "c3" -> [rol |-> "cliente"]
          [] c = "c4" -> [rol |-> "cliente", rut |-> NoneRut]]

\* client ids a read can be made for (" " is a blank id)
ClienteIds == {"c1", "c2", "c3", "c4", "c5", " "}

\* the reference qualification document
DocRef ==
    [activo |-> TRUE, fechaDeclaracion |-> strftime(F2), tipoImpuesto |-> "IVA",
     pais |-> "Chile", clienteId |-> "c1", esLocal |-> FALSE,
     propietarioRegistroId |-> "U1"]

\* documents that differ from the reference document in one aspect
PoolVisibilidad ==
    {DocRef,
     [DocRef EXCEPT !.activo = FALSE],
     [DocRef EXCEPT !.esLocal = TRUE],
     [DocRef EXCEPT !.esLocal = TRUE, !.propietarioRegistroId = "U2"],
     [DocRef EXCEPT !.propietarioRegistroId = "U2"],
     Quitar([DocRef EXCEPT !.propietarioRegistroId = "U2"], "esLocal"),
     Quitar([DocRef EXCEPT !.esLocal = TRUE], "propietarioRegistroId")}
PoolFecha ==
    {DocRef,
     [DocRef EXCEPT !.fechaDeclaracion = strftime(F1)],
     [DocRef EXCEPT !.fechaDeclaracion = strftime(F3)],
     Quitar(DocRef, "fechaDeclaracion"),
     [DocRef EXCEPT !.tipoImpuesto = "Renta"],
     [DocRef EXCEPT !.pais = "Peru"]}
PoolCliente ==
    {[DocRef EXCEPT !.clienteId = c] : c \in {"c1", "c2", "c3", "c4", "c5", " "}}
        \cup {Quitar(DocRef, "clienteId")}

\* doc.id: the documents of a collection numbered in storage order
ConIds(s) == [i \in 1..Len(s) |-> Poner(s[i], "_id", i)]

\* identities: user id and role
Usuarios == {"U1", "U2"}
Roles == {"administrador", "cliente"}

\* filter dictionaries: each key may be absent
FiltrosFecha ==
    {[k \in {} |-> ""]}
        \cup {[fecha_desde |-> a] : a \in {F2, F3}}
        \cup {[fecha_hasta |-> b] : b \in {F1, F2}}
        \cup {[fecha_desde |-> a, fecha_hasta |-> b] : a \in {F2, F3}, b \in {F1, F2}}
FiltrosOtros ==
    {[tipo_impuesto |-> "IVA"], [pais |-> "Chile"]}
        \cup {[estado |-> e] : e \in {"local", "bolsa", "ambos"}}
FiltrosRut ==
    {[rut_cliente |-> t] : t \in {<<"9">>, <<"k">>, <<"K">>, <<" ", "n", "/", "a">>}}
Filtros ==
    FiltrosFecha \cup FiltrosOtros \cup FiltrosRut
        \cup {[fecha_desde |-> F2, fecha_hasta |-> F2] @@ b :
                b \in FiltrosOtros \cup FiltrosRut}

CacheVacio == [c \in {} |-> NA]

-----------------------------------------------------------------------------
(* The reports window (GenerarReportesContent) *)

\* days of month m of year y
DiasMes(y, m) ==
    IF m = 2
    THEN (IF (y % 4 = 0 /\ y % 100 # 0) \/ y % 400 = 0 THEN 29 ELSE 28)
    ELSE IF m \in {4, 6, 9, 11} THEN 30 ELSE 31

\* QDate.addMonths(n): the day is kept, or is the last day of the month
AddMonths(f, n) ==
    LET total == f.y * 12 + (f.m - 1) + n
        y == total \div 12
        m == (total % 12) + 1
    IN  [y |-> y, m |-> m, d |-> IF f.d > DiasMes(y, m) THEN DiasMes(y, m) ELSE f.d]

RECURSIVE DiasAntesDeMes(_, _)
DiasAntesDeMes(y, m) ==
    IF m = 1 THEN 0 ELSE DiasAntesDeMes(y, m - 1) + DiasMes(y, m - 1)

\* date.toordinal(): the number of the day in the proleptic calendar
Ordinal(f) ==
    LET a == f.y - 1
    IN  365 * a + (a \div 4) - (a \div 100) + (a \div 400)
            + DiasAntesDeMes(f.y, f.m) + f.d

\* the current date (QDate.currentDate, datetime.now)
Hoy == F3

\* a date more than five years before the current date
F0 == [y |-> 2019, m |-> 1, d |-> 1]

\* the user documents the window is opened for
UserData ==
    {[_id |-> "U1", rol |-> "administrador"], [_id |-> "U1", rol |-> "cliente"],
     [_id |-> "U2"]}

\* the filter widgets as add_filters creates and limpiar_filtros resets them
WidgetsPorDefecto ==
    [date_desde |-> AddMonths(Hoy, -6), date_hasta |-> Hoy,
     combo_tipo |-> "Todos", combo_pais |-> "Todos", radio |-> "ambos"]

\* the settings the user gives the filter widgets
Widgets ==
    {WidgetsPorDefecto,
     [WidgetsPorDefecto EXCEPT !.date_desde = F2],
     [WidgetsPorDefecto EXCEPT !.date_desde = F2, !.date_hasta = F1],
     [WidgetsPorDefecto EXCEPT !.date_desde = F0],
     [WidgetsPorDefecto EXCEPT !.combo_tipo = "Renta", !.combo_pais = "Perú"],
     [WidgetsPorDefecto EXCEPT !.radio = "local"],
     [WidgetsPorDefecto EXCEPT !.date_desde = F2, !.radio = "bolsa"]}

\* the filters of a fetch, before any fetch
SinConsulta == [consulta |-> "ninguna"]

\* GenerarReportesContent.__init__ and the widgets init_ui creates.
\* progress_dialog is "None", "visible" or "oculto" (hidden, the object
\* still referenced); trabajadores holds the ExportWorker threads started,
\* the last being self.export_worker; senales holds the signals emitted by
\* them and not yet delivered to the slots of the window.  filtros_consulta
\* is no attribute of the window: it records the filters given to the
\* fetch that last assigned datos_actuales.
VentanaInicial(user_data) ==
    [activa |-> TRUE, user_data |-> user_data,
     user_rol |-> Get(user_data, "rol", "cliente"),
     widgets |-> WidgetsPorDefecto, datos_actuales |-> <<>>,
     filas_vista |-> 0, btn_csv |-> FALSE, btn_excel |-> FALSE,
     progress_dialog |-> "None", trabajadores |-> <<>>, senales |-> <<>>,
     historial_filas |-> 0, filtros_consulta |-> SinConsulta]

\* no window is open
SinVentana == [activa |-> FALSE]

\* GenerarReportesContent.validar_filtros: "" when the filters are valid
validar_filtros(w) ==
    IF Ordinal(w.date_desde) > Ordinal(w.date_hasta)
    THEN "La fecha 'desde' no puede ser mayor que la fecha 'hasta'"
    ELSE IF Ordinal(Hoy) - Ordinal(w.date_desde) > 1825
    THEN "El rango de fechas no puede ser superior a 5 años"
    ELSE ""

\* GenerarReportesContent.obtener_filtros
obtener_filtros(w) ==
    LET fechas == [fecha_desde |-> w.date_desde, fecha_hasta |-> w.date_hasta,
                   estado |-> w.radio]
        tipo == IF w.combo_tipo # "Todos"
                THEN Poner(fechas, "tipo_impuesto", w.combo_tipo) ELSE fechas
    IN  IF w.combo_pais # "Todos" THEN Poner(tipo, "pais", w.combo_pais) ELSE tipo

\* GenerarReportesContent.actualizar_vista_previa: the RUT column of the
\* rows; st = [ruts, cache, cons]
RECURSIVE actualizar_vista_previa(_, _, _)
actualizar_vista_previa(lista, st, fallan) ==
    IF lista = <<>> THEN st
    ELSE LET cliente_id == Get(Head(lista), "clienteId", "")
             r == IF cliente_id # "" /\ cliente_id # "None"
                  THEN obtener_rut_cliente(st.cache, st.cons, cliente_id, fallan)
                  ELSE [rut |-> NA, cache |-> st.cache, cons |-> st.cons]
         IN  actualizar_vista_previa(Tail(lista),
                 [ruts |-> Append(st.ruts, StrRut(r.rut)), cache |-> r.cache,
                  cons |-> r.cons], fallan)

\* reportsWindow.py lines 741-763: the sum of factors 8..19 the preview
\* shows: factores that is not a dict counts as {}, a list-valued factor
\* counts as its first element, a value float() rejects is skipped
VistaSuma(cal) ==
    LET raw == FactoresCrudos(cal)
        fd == IF raw.forma = "dict" THEN raw.v ELSE SinFactores
        F[i \in 7..19] == IF i = 7 THEN 0 ELSE F[i - 1] + FactorColumna(fd, i)
    IN  F[19]

\* reportsWindow.py lines 765-781: the sum and validity cells of a preview
\* row (the text of the validity cell without its leading symbol)
VistaValidez(cal) ==
    [suma |-> VistaSuma(cal),
     resaltada |-> VistaSuma(cal) > 10000,
     valido |-> IF VistaSuma(cal) <= 10000 THEN "Sí" ELSE "No"]

\* queryWindow.py lines 417-455: the amount, sum and validity cells of a
\* row of the results table; raised is TRUE when formatting the amount or
\* summing the factors raises (no handler catches it)
TablaFila(cal) ==
    LET monto == Get(cal, "montoDeclarado", Num(0))
        raw == FactoresCrudos(cal)
        raised == \/ monto.t # "num"
                  \/ raw.forma # "dict"
                  \/ \E i \in 8..19 : Get(raw.v, i, Num(0)).t # "num"
        suma == SumaCruda(raw.v, 8, 19)
    IN  IF raised THEN [raised |-> TRUE]
        ELSE [raised |-> FALSE, monto |-> monto.v, suma |-> suma,
              resaltada |-> suma > 10000,
              valido |-> IF suma <= 10000 THEN "Sí" ELSE "No"]

\* ConsultarDatosContent.actualizar_tabla: the rows filled before a row
\* raises and whether one did, with the cache and the read counts;
\* st = [filas, cache, cons]
RECURSIVE actualizar_tabla(_, _, _)
actualizar_tabla(lista, st, fallan) ==
    IF lista = <<>>
    THEN [raised |-> FALSE, filas |-> st.filas, cache |-> st.cache, cons |-> st.cons]
    ELSE LET cal == Head(lista)
             r == obtener_rut_cliente(st.cache, st.cons,
                                      Get(cal, "clienteId", ""), fallan)
             f == TablaFila(cal)
         IN  IF f.raised
             THEN [raised |-> TRUE, filas |-> st.filas, cache |-> r.cache,
                   cons |-> r.cons]
             ELSE actualizar_tabla(Tail(lista),
                      [filas |-> Append(st.filas, f), cache |-> r.cache,
                       cons |-> r.cons], fallan)

-----------------------------------------------------------------------------
(* Calls of the service *)

InitServicio ==
    /\ usuarios = UsuariosIniciales
    /\ rut_cache = CacheVacio
    /\ consultas = [c \in ClienteIds |-> 0]
    /\ archivos = <<>>
    /\ reportes = <<>>
    /\ auditoria = <<>>
    /\ ret = [op |-> "libre"]

\* the collection holds documents that vary in one aspect
InitFiltro ==
    /\ datos \in {ConIds(s) : s \in SeqsHasta(PoolVisibilidad, MaxDatos)
                                    \cup SeqsHasta(PoolFecha, MaxDatos)
                                    \cup SeqsHasta(PoolCliente, MaxDatos)}
    /\ ventana = SinVentana
    /\ InitServicio

\* no call is in progress and the last result has been taken
Libre == ret.op = "libre"

\* the caller takes the result of the last call
Retornar ==
    /\ ~ Libre
    /\ ret' = [op |-> "libre"]
    /\ UNCHANGED <<datos, usuarios, rut_cache, consultas, salidas, ventana>>

\* a call of obtener_datos_filtrados
LlamarObtenerDatosFiltrados ==
    /\ Libre
    /\ \E filtros \in Filtros, usuario_id \in Usuarios, rol \in Roles :
       \E fallan \in IF DadoTexto(filtros, "rut_cliente")
                      THEN {{}, {"c2"}} ELSE {{}} :
        LET ll == [filtros |-> filtros, usuario_id |-> usuario_id, rol |-> rol,
                   fallan |-> fallan, falla_consulta |-> FALSE]
            out == obtener_datos_filtrados(ll, rut_cache, consultas)
        IN  /\ rut_cache' = out.cache
            /\ consultas' = out.cons
            /\ ret' = [op |-> "obtener_datos_filtrados", ll |-> ll,
                       cache_antes |-> rut_cache, res |-> out.res, exc |-> out.exc]
            /\ UNCHANGED <<datos, usuarios, salidas, ventana>>

\* a call of obtener_datos_filtrados in which the stream of the query raises
LlamarObtenerDatosFalla ==
    /\ Libre
    /\ \E usuario_id \in Usuarios, rol \in Roles :
        LET ll == [filtros |-> [estado |-> "ambos"], usuario_id |-> usuario_id,
                   rol |-> rol, fallan |-> {}, falla_consulta |-> TRUE]
            out == obtener_datos_filtrados(ll, rut_cache, consultas)
        IN  /\ rut_cache' = out.cache
            /\ consultas' = out.cons
            /\ ret' = [op |-> "obtener_datos_filtrados", ll |-> ll,
                       cache_antes |-> rut_cache, res |-> out.res, exc |-> out.exc]
            /\ UNCHANGED <<datos, usuarios, salidas, ventana>>

\* a call of validar_permisos_exportacion, on the stored documents or on
\* the list the last call returned
LlamarValidarPermisos ==
    \E usuario_id \in Usuarios, rol \in Roles :
    \E calificaciones \in IF Libre THEN {datos}
                           ELSE IF ret.ll.usuario_id = usuario_id /\ ret.ll.rol = rol
                           THEN {ret.res} ELSE {} :
        /\ ret' = [op |-> "validar_permisos_exportacion",
                   ll |-> [calificaciones |-> calificaciones,
                           usuario_id |-> usuario_id, rol |-> rol],
                   res |-> validar_permisos_exportacion(calificaciones, usuario_id, rol)]
        /\ UNCHANGED <<datos, usuarios, rut_cache, consultas, salidas, ventana>>

\* ReportService.limpiar_cache
limpiar_cache ==
    /\ Libre
    /\ rut_cache' = CacheVacio
    /\ consultas' = [c \in ClienteIds |-> 0]
    /\ ret' = [op |-> "libre"]
    /\ UNCHANGED <<datos, usuarios, salidas, ventana>>

NextFiltro ==
    \/ LlamarObtenerDatosFiltrados
    \/ LlamarObtenerDatosFalla
    \/ LlamarValidarPermisos
    \/ limpiar_cache
    \/ Retornar

SpecFiltro == InitFiltro /\ [][NextFiltro]_vars

-----------------------------------------------------------------------------
(* Properties of the filter and of the export authorization *)

EsFiltrado == ret.op = "obtener_datos_filtrados"
EsValidacion == ret.op = "validar_permisos_exportacion"

\* the record is not local, or the identity owns it
NoLocalOPropio(d, usuario_id) ==
    \/ "esLocal" \notin DOMAIN d
    \/ d.esLocal = FALSE
    \/ ("propietarioRegistroId" \in DOMAIN d /\ d.propietarioRegistroId = usuario_id)

\* C1: for every role other than administrador, every record returned by
\* obtener_datos_filtrados and by validar_permisos_exportacion is non-local
\* or owned by the caller.
C1_SoloVisibles ==
    ((EsFiltrado \/ EsValidacion) /\ ret.ll.rol # "administrador")
        => \A i \in 1..Len(ret.res) : NoLocalOPropio(ret.res[i], ret.ll.usuario_id)

\* a filter call by a client that left out another owner's local record
\* and returned the other stored record
C1_Witness ==
    /\ EsFiltrado /\ ret.ll.rol = "cliente" /\ ~ ret.exc
    /\ ret.ll.filtros = [estado |-> "ambos"]
    /\ Len(DocsActivos) = 2 /\ Len(ret.res) = 1
    /\ \E i \in 1..Len(datos) : ~ NoLocalOPropio(datos[i], ret.ll.usuario_id)

\* C4: validar_permisos_exportacion is idempotent, and leaves unchanged a
\* list obtener_datos_filtrados returned to the same identity.
C4_Idempotente ==
    (EsFiltrado \/ EsValidacion)
        => validar_permisos_exportacion(ret.res, ret.ll.usuario_id, ret.ll.rol) = ret.res

\* a validation for a client that dropped one record and kept another
C4_Witness ==
    /\ EsValidacion /\ ret.ll.rol = "cliente"
    /\ Len(ret.ll.calificaciones) = 2 /\ Len(ret.res) = 1

\* the date a fixed-width ISO text denotes
ParseFecha(s) ==
    [y |-> 1000 * (CharCode(s[1]) - 48) + 100 * (CharCode(s[2]) - 48)
            + 10 * (CharCode(s[3]) - 48) + (CharCode(s[4]) - 48),
     m |-> 10 * (CharCode(s[6]) - 48) + (CharCode(s[7]) - 48),
     d |-> 10 * (CharCode(s[9]) - 48) + (CharCode(s[10]) - 48)]

\* calendar order
FechaMenorIgual(a, b) ==
    \/ a.y < b.y
    \/ a.y = b.y /\ a.m < b.m
    \/ a.y = b.y /\ a.m = b.m /\ a.d <= b.d

\* the text is a date within the inclusive calendar range of the filter
FechaEnRango(s, filtros) ==
    /\ FechaMenorIgual(filtros.fecha_desde, ParseFecha(s))
    /\ FechaMenorIgual(ParseFecha(s), filtros.fecha_hasta)

ConRangoDeFechas ==
    /\ EsFiltrado
    /\ {"fecha_desde", "fecha_hasta"} \subseteq DOMAIN ret.ll.filtros

\* C5 as stated: with both dates supplied, every returned record has a
\* declaration date within the inclusive range.
C5_Original ==
    ConRangoDeFechas
        => \A i \in 1..Len(ret.res) :
              /\ "fechaDeclaracion" \in DOMAIN ret.res[i]
              /\ FechaEnRango(ret.res[i].fechaDeclaracion, ret.ll.filtros)

\* C5 amended: with both dates supplied, every returned record that has a
\* declaration date has it within the inclusive range; a record without a
\* declaration date is not filtered by date.
C5_FechasEnRango ==
    ConRangoDeFechas
        => \A i \in 1..Len(ret.res) :
              Get(ret.res[i], "fechaDeclaracion", <<>>) # <<>>
                  => FechaEnRango(ret.res[i].fechaDeclaracion, ret.ll.filtros)

\* a date range kept a dated record and dropped a stored one
C5_Witness ==
    /\ ConRangoDeFechas /\ ~ ret.exc
    /\ Len(DocsActivos) = 2 /\ Len(ret.res) = 1
    /\ "fechaDeclaracion" \in DOMAIN ret.res[1]
    /\ \E i \in 1..2 :
          /\ "fechaDeclaracion" \in DOMAIN DocsActivos[i]
          /\ ~ FechaEnRango(DocsActivos[i].fechaDeclaracion, ret.ll.filtros)

\* the RUT the call resolved for the record's client; a RUT that is not a
\* text counts as "N/A"
RutResuelto(d) ==
    LET r == obtener_rut_cliente(ret.cache_antes, consultas,
                                 Get(d, "clienteId", ""), ret.ll.fallan).rut
    IN  IF r = NoneRut THEN NA ELSE r

\* the record is one of the records returned
Devuelto(d) == \E i \in 1..Len(ret.res) : ret.res[i] = d

\* the record passes the filters other than the RUT filter, and may be seen
PasaLoDemas(d) ==
    /\ PasaFechaDesde(d, ret.ll.filtros) /\ PasaFechaHasta(d, ret.ll.filtros)
    /\ PasaTipo(d, ret.ll.filtros) /\ PasaPais(d, ret.ll.filtros)
    /\ PasaEstado(d, ret.ll.filtros)
    /\ PermisoVer(d, ret.ll.usuario_id, ret.ll.rol)

ConFiltroRut == EsFiltrado /\ DadoTexto(ret.ll.filtros, "rut_cliente")

\* the (trimmed) filter text occurs in the RUT, letter case ignored
CoincideRut(rut, filtros) ==
    Contiene(upper(strip(filtros.rut_cliente)), upper(rut))

\* C6 as stated: with a client-RUT filter, a record passes the filter if
\* and only if the filter text is a substring of its resolved RUT, letter
\* case ignored on both sides.
C6_Original ==
    (ConFiltroRut /\ ~ ret.exc)
        => \A i \in 1..Len(DocsActivos) :
              PasaLoDemas(DocsActivos[i])
                  => (Devuelto(DocsActivos[i])
                        <=> CoincideRut(RutResuelto(DocsActivos[i]), ret.ll.filtros))

\* C7 as stated: with a client-RUT filter, a record whose RUT cannot be
\* resolved is judged on "N/A", and the result is the list of the records
\* that pass; the failure neither removes other records nor empties the
\* result.
C7_Original ==
    (ConFiltroRut /\ ~ ret.ll.falla_consulta)
        => ret.res = SelectSeq(DocsActivos,
                        LAMBDA d : /\ PasaLoDemas(d)
                                   /\ PasaRut(RutResuelto(d), ret.ll.filtros))

\* the filter predicates and the visibility rule of the contract
PasaContrato(d, ll) ==
    LET f == ll.filtros
        fecha == Get(d, "fechaDeclaracion", <<>>)
        es_local == Get(d, "esLocal", FALSE)
    IN  /\ ("fecha_desde" \in DOMAIN f /\ fecha # <<>>)
               => FechaMenorIgual(f.fecha_desde, ParseFecha(fecha))
        /\ ("fecha_hasta" \in DOMAIN f /\ fecha # <<>>)
               => FechaMenorIgual(ParseFecha(fecha), f.fecha_hasta)
        /\ "tipo_impuesto" \in DOMAIN f => Get(d, "tipoImpuesto", "") = f.tipo_impuesto
        /\ "pais" \in DOMAIN f => Get(d, "pais", "") = f.pais
        /\ DadoTexto(f, "rut_cliente") => CoincideRut(RutResuelto(d), f)
        /\ Get(f, "estado", "ambos") = "local" => es_local
        /\ Get(f, "estado", "ambos") = "bolsa" => ~ es_local
        /\ (ll.rol = "administrador" \/ NoLocalOPropio(d, ll.usuario_id))

\* C2 as stated: obtener_datos_filtrados returns exactly, in storage order,
\* the active records that pass every supplied filter and the visibility
\* rule.
C2_Original ==
    (EsFiltrado /\ ~ ret.ll.falla_consulta)
        => ret.res = SelectSeq(DocsActivos, LAMBDA d : PasaContrato(d, ret.ll))

\* supporting check: without a client-RUT filter the result is exactly
\* the list of the contract
SinFiltroRut_Exacto ==
    (EsFiltrado /\ ~ ret.ll.falla_consulta /\ ~ ConFiltroRut)
        => ret.res = SelectSeq(DocsActivos, LAMBDA d : PasaContrato(d, ret.ll))

-----------------------------------------------------------------------------
(* Calls of obtener_rut_cliente while the users collection changes *)

\* user documents another part of the application may store for a client
DocsUsuario ==
    {[rol |-> "cliente", rut |-> Rut1], [rol |-> "cliente", rut |-> Rut2],
     [rol |-> "cliente"], [rol |-> "cliente", rut |-> NoneRut]}

InitRut ==
    /\ datos = <<>>
    /\ ventana = SinVentana
    /\ InitServicio

\* a call of obtener_rut_cliente; falla: the read of the user document raises
LlamarObtenerRutCliente ==
    /\ Libre
    /\ \E cliente_id \in ClienteIds \cup {""}, falla \in BOOLEAN :
        LET out == obtener_rut_cliente(rut_cache, consultas, cliente_id,
                                       IF falla THEN {cliente_id} ELSE {})
        IN  /\ rut_cache' = out.cache
            /\ consultas' = out.cons
            /\ ret' = [op |-> "obtener_rut_cliente", cliente_id |-> cliente_id,
                       falla |-> falla, cache_antes |-> rut_cache,
                       leido |-> out.cons # consultas, res |-> out.rut]
            /\ UNCHANGED <<datos, usuarios, salidas, ventana>>

\* the document of client c1 is stored, replaced or deleted
CambiarUsuario ==
    /\ Libre
    /\ \/ \E doc \in DocsUsuario :
            /\ Get(usuarios, "c1", [rol |-> ""]) # doc
            /\ usuarios' = Poner(usuarios, "c1", doc)
       \/ /\ "c1" \in DOMAIN usuarios
          /\ usuarios' = Quitar(usuarios, "c1")
    /\ UNCHANGED <<datos, rut_cache, consultas, salidas, ventana, ret>>

\* the values a stored clienteId may hold
ValoresClienteId ==
    {[t |-> "str", v |-> "c1"], [t |-> "str", v |-> ""],
     [t |-> "int", n |-> 0], [t |-> "int", n |-> 7], [t |-> "lista"]}

\* a call of obtener_rut_cliente with a value of any type
LlamarObtenerRutDeValor ==
    /\ Libre
    /\ \E valor \in ValoresClienteId, falla \in BOOLEAN :
        LET out == obtener_rut_cliente_de(valor, rut_cache, consultas,
                                          IF falla THEN {"c1"} ELSE {})
        IN  /\ rut_cache' = out.cache
            /\ consultas' = out.cons
            /\ ret' = [op |-> "obtener_rut_cliente_de", valor |-> valor,
                       falla |-> falla, raised |-> out.raised, res |-> out.rut]
            /\ UNCHANGED <<datos, usuarios, salidas, ventana>>

NextRut ==
    \/ LlamarObtenerRutCliente
    \/ LlamarObtenerRutDeValor
    \/ CambiarUsuario
    \/ limpiar_cache
    \/ Retornar

SpecRut == InitRut /\ [][NextRut]_vars

EsLecturaRut == ret.op = "obtener_rut_cliente"

\* C8 as stated: obtener_rut_cliente with an empty or blank client id
\* returns "N/A", reads no user document and leaves rut_cache unchanged.
C8_Original ==
    (EsLecturaRut /\ ret.cliente_id \in {"", " "})
        => /\ ret.res = NA
           /\ ~ ret.leido
           /\ rut_cache = ret.cache_antes

\* what a read of the user document yields for the cache
RutLeido(cliente_id, falla) ==
    IF falla \/ cliente_id \notin DOMAIN usuarios THEN NA
    ELSE IF "rut" \in DOMAIN usuarios[cliente_id] THEN usuarios[cliente_id].rut
    ELSE NA

\* C9: with no limpiar_cache in between, a non-empty client id is read at
\* most once; the call that reads it caches what it read, or "N/A" when
\* the document is missing, has no rut field or the read fails; a call for
\* a cached id returns the cached value, reads nothing and leaves the
\* cache as it is, whatever the stored document now holds.
C9_UnaLecturaPorCliente ==
    /\ \A c \in ClienteIds : consultas[c] <= 1
    /\ (EsLecturaRut /\ ret.cliente_id \in DOMAIN ret.cache_antes)
          => /\ ret.res = ret.cache_antes[ret.cliente_id]
             /\ ~ ret.leido
             /\ rut_cache = ret.cache_antes
    /\ (EsLecturaRut /\ ret.cliente_id # "" /\ ret.cliente_id \notin DOMAIN ret.cache_antes)
          => /\ ret.leido
             /\ ret.res = RutLeido(ret.cliente_id, ret.falla)
             /\ rut_cache = Poner(ret.cache_antes, ret.cliente_id, ret.res)

\* a call returned the cached RUT of a client whose document has changed
C9_Witness ==
    /\ EsLecturaRut /\ ret.cliente_id = "c1" /\ ~ ret.falla
    /\ "c1" \in DOMAIN ret.cache_antes
    /\ ret.res = Rut1
    /\ RutLeido("c1", FALSE) = Rut2
    /\ consultas["c1"] = 1

-----------------------------------------------------------------------------
(* The exports *)

\* stored documents that differ in locality, owner and visible fields
PoolExport ==
    {DocRef,
     [DocRef EXCEPT !.propietarioRegistroId = "U2", !.clienteId = "c2"],
     [DocRef EXCEPT !.esLocal = TRUE, !.tipoImpuesto = "Renta"],
     [DocRef EXCEPT !.esLocal = TRUE, !.propietarioRegistroId = "U2",
                    !.pais = "Peru"],
     Poner([DocRef EXCEPT !.clienteId = "c3"], "montoDeclarado", [t |-> "mal"])}

\* what the environment does in an export call, the filters recorded, the
\* path chosen and whether a progress callback is given
Escenarios ==
    {[fallan |-> {}, falla_io |-> io, falla_registro |-> reg,
      filtros |-> [estado |-> "ambos"], file_path |-> <<"d", "/", "r", ".", "c">>,
      con_progreso |-> TRUE] :
        io \in {FALSE}, reg \in {"no", "add", "audit"}}
    \cup {[fallan |-> {}, falla_io |-> TRUE, falla_registro |-> "no",
           filtros |-> [estado |-> "ambos"],
           file_path |-> <<"d", "/", "r", ".", "c">>, con_progreso |-> TRUE],
          [fallan |-> {"c2"}, falla_io |-> FALSE, falla_registro |-> "no",
           filtros |-> [fecha_desde |-> F1, fecha_hasta |-> F3, pais |-> "Chile"],
           file_path |-> <<"d", "\\", "s", ".", "x">>, con_progreso |-> FALSE]}

\* bound: export calls that write a file or add a history entry
MaxExportaciones == 1

InitExport ==
    /\ datos \in {ConIds(s) : s \in SeqsHasta(PoolExport, MaxDatos)}
    /\ ventana = SinVentana
    /\ InitServicio

\* the arguments of an export call on the stored documents
ArgsExport(esc, usuario_id, rol) ==
    [calificaciones |-> datos, usuario_id |-> usuario_id, rol |-> rol,
     file_path |-> esc.file_path, filtros |-> esc.filtros,
     con_progreso |-> esc.con_progreso, fallan |-> esc.fallan,
     falla_io |-> esc.falla_io, falla_registro |-> esc.falla_registro]

\* the state the service holds before an export call
EstadoServicio ==
    [cache |-> rut_cache, cons |-> consultas, archivos |-> archivos,
     reportes |-> reportes, auditoria |-> auditoria]

\* the effect of an export call with value out
Exportado(op, ex, out) ==
    /\ rut_cache' = out.cache
    /\ consultas' = out.cons
    /\ archivos' = out.archivos
    /\ reportes' = out.reportes
    /\ auditoria' = out.auditoria
    /\ ret' = [op |-> op, ex |-> ex, result |-> out.result,
               progreso |-> out.progreso, antes |-> EstadoServicio]
    /\ UNCHANGED <<datos, usuarios, ventana>>

\* a call of exportar_csv
LlamarExportarCsv ==
    /\ Libre
    /\ Len(archivos) < MaxExportaciones
    /\ Len(reportes) < MaxExportaciones
    /\ \E esc \in Escenarios, usuario_id \in Usuarios, rol \in Roles :
        LET ex == ArgsExport(esc, usuario_id, rol)
        IN  Exportado("exportar_csv", ex, exportar_csv(ex, EstadoServicio))

\* a call of exportar_excel
LlamarExportarExcel ==
    /\ Libre
    /\ Len(archivos) < MaxExportaciones
    /\ Len(reportes) < MaxExportaciones
    /\ \E esc \in Escenarios, usuario_id \in Usuarios, rol \in Roles :
        LET ex == ArgsExport(esc, usuario_id, rol)
        IN  Exportado("exportar_excel", ex, exportar_excel(ex, EstadoServicio))

NextExport ==
    \/ LlamarExportarCsv
    \/ LlamarExportarExcel
    \/ Retornar

SpecExport == InitExport /\ [][NextExport]_vars

EsExportacion == ret.op \in {"exportar_csv", "exportar_excel"}

\* the records of the list given to the export that the identity may export
Permitidas(ex) ==
    SelectSeq(ex.calificaciones, LAMBDA d : NoLocalOPropio(d, ex.usuario_id))

\* the file the last call wrote and the history entry it added, if any
EscribioArchivo == Len(archivos) > Len(ret.antes.archivos)
AgregoReporte == Len(reportes) > Len(ret.antes.reportes)

\* C3: an export by a non-administrator serializes only the records of the
\* given list that are non-local or owned by usuario_id: the file it writes
\* holds the rows of exactly these records, and the count it returns and
\* the count it records in the history are their number; when no record of
\* the list survives, the result is a failure, no file is written and no
\* history entry is added.
C3_ExportaSoloPermitidas ==
    (EsExportacion /\ ret.ex.rol # "administrador") =>
        LET p == Permitidas(ret.ex)
            filas == preparar_dataframe(p, ret.antes.cache, ret.antes.cons,
                                        ret.ex.fallan).filas
        IN  /\ ret.result.success => ret.result.total_registros = Len(p)
            /\ EscribioArchivo => archivos[Len(archivos)].filas = filas
            /\ AgregoReporte => reportes[Len(reportes)].totalRegistros = Len(p)
            /\ p = <<>> => /\ ~ ret.result.success
                           /\ ~ EscribioArchivo
                           /\ ~ AgregoReporte

\* a non-administrator exported a list of which one record survived and
\* one did not: the file and the history entry were written
C3_Witness ==
    /\ EsExportacion
    /\ ret.ex.rol # "administrador"
    /\ ret.result.success
    /\ EscribioArchivo
    /\ AgregoReporte
    /\ Len(ret.ex.calificaciones) = 2
    /\ Len(Permitidas(ret.ex)) = 1
    /\ Len(archivos[Len(archivos)].filas) = 1

-----------------------------------------------------------------------------
(* The handlers of the reports window *)

\* stored documents of two clients inside the default date range and one
\* local document before it
PoolVentana ==
    {[DocRef EXCEPT !.fechaDeclaracion = strftime(F3)],
     [DocRef EXCEPT !.fechaDeclaracion = strftime(F3), !.clienteId = "c2",
                    !.tipoImpuesto = "Renta", !.pais = "Perú"],
     [DocRef EXCEPT !.esLocal = TRUE, !.propietarioRegistroId = "U2",
                    !.clienteId = "c3"]}

Init ==
    /\ datos \in {ConIds(s) : s \in SeqsHasta(PoolVentana, MaxDatos)}
    /\ ventana \in {VentanaInicial(u) : u \in UserData}
    /\ InitServicio

\* the user sets the filter widgets
CambiarFiltros ==
    /\ ventana.activa
    /\ \E w \in Widgets \ {ventana.widgets} :
        ventana' = [ventana EXCEPT !.widgets = w]
    /\ UNCHANGED <<datos, usuarios, rut_cache, consultas, salidas, ret>>

\* a no-results branch that leaves the export buttons as they were
SinResultados_BotonesComoEstaban(v, filtros) ==
    [v EXCEPT !.datos_actuales = <<>>, !.filas_vista = 0,
              !.filtros_consulta = filtros]

\* lines 606-623: the window after a fetch with filtros that returned no
\* record
SinResultados(v, filtros) ==
    [v EXCEPT !.datos_actuales = <<>>, !.btn_csv = FALSE, !.btn_excel = FALSE,
              !.filas_vista = 0, !.filtros_consulta = filtros]

\* GenerarReportesContent.aplicar_filtros; falla_consulta: the query of
\* the service raises; fallan: the user documents whose read raises
aplicar_filtros ==
    /\ ventana.activa
    /\ \E falla_consulta \in BOOLEAN, fallan \in {{}, {"c2"}} :
        LET mensaje_error == validar_filtros(ventana.widgets)
            ll == [filtros |-> obtener_filtros(ventana.widgets),
                   usuario_id |-> Get(ventana.user_data, "_id", None),
                   rol |-> ventana.user_rol, fallan |-> {},
                   falla_consulta |-> falla_consulta]
        IN  IF mensaje_error # ""
            THEN /\ ret' = [op |-> "aplicar_filtros", aviso |-> mensaje_error]
                 /\ UNCHANGED <<datos, usuarios, rut_cache, consultas, salidas,
                                ventana>>
            ELSE \E out \in {obtener_datos_filtrados(ll, rut_cache, consultas)} :
                 IF out.res = <<>>
                 THEN /\ ventana' = SinResultados(ventana, ll.filtros)
                      /\ rut_cache' = out.cache
                      /\ consultas' = out.cons
                      /\ ret' = [op |-> "aplicar_filtros",
                                 aviso |-> "Sin resultados"]
                      /\ UNCHANGED <<datos, usuarios, salidas>>
                 ELSE \E vista \in {actualizar_vista_previa(Primeros(out.res, 50),
                                       [ruts |-> <<>>, cache |-> out.cache,
                                        cons |-> out.cons], fallan)} :
                      /\ ventana' = [ventana EXCEPT !.datos_actuales = out.res,
                                                    !.btn_csv = TRUE,
                                                    !.btn_excel = TRUE,
                                                    !.filas_vista = Len(vista.ruts),
                                                    !.filtros_consulta = ll.filtros]
                      /\ rut_cache' = vista.cache
                      /\ consultas' = vista.cons
                      /\ ret' = [op |-> "aplicar_filtros",
                                 aviso |-> IF Len(out.res) > 10000
                                           THEN "Gran volumen de datos" ELSE ""]
                      /\ UNCHANGED <<datos, usuarios, salidas>>

\* GenerarReportesContent.limpiar_filtros.  The widgets and the loaded
\* records are reset; then the call self.service.limpiar_cache_rut()
\* raises AttributeError, as ReportService has no such method (its method
\* is limpiar_cache): rut_cache is as before.  The exception leaves the
\* slot unhandled: the application goes on or is aborted.
limpiar_filtros ==
    /\ ventana.activa
    /\ \E sigue \in BOOLEAN :
        ventana' = [ventana EXCEPT !.widgets = WidgetsPorDefecto,
                                   !.datos_actuales = <<>>,
                                   !.filas_vista = 0,
                                   !.btn_csv = FALSE,
                                   !.btn_excel = FALSE,
                                   !.activa = sigue]
    /\ ret' = [op |-> "limpiar_filtros", excepcion |-> "AttributeError"]
    /\ UNCHANGED <<datos, usuarios, rut_cache, consultas, salidas>>

Next ==
    \/ CambiarFiltros
    \/ aplicar_filtros
    \/ limpiar_filtros

Spec == Init /\ [][Next]_vars

\* C10 as the specification states it: after limpiar_filtros, rut_cache is
\* empty.
C10_Original ==
    ret.op = "limpiar_filtros" => rut_cache = CacheVacio

-----------------------------------------------------------------------------
(* Normalization: the rows, the tables and the summary of stored documents *)

\* nineteen factor values whose factors 8..19 sum to exactly 1.0
Valores19 ==
    [i \in 1..19 |-> IF i \in {8, 9} THEN Num(5000)
                     ELSE IF i = 1 THEN Num(2500) ELSE Num(0)]

\* nineteen factor values of which factor 10 is a str float() rejects,
\* factor 11 a str it parses and factor 3 a list
Valores19Mixtos ==
    [i \in 1..19 |-> CASE i \in {8, 9} -> Num(6000)
                       [] i = 10 -> [t |-> "mal"]
                       [] i = 11 -> [t |-> "txt", v |-> 2000]
                       [] i = 3 -> [t |-> "lista", v |-> <<Num(2500)>>]
                       [] OTHER -> Num(0)]

ConFactores(forma, v) == Poner(DocRef, "factores", [forma |-> forma, v |-> v])

\* stored documents that differ in their factores field
PoolFactores ==
    {ConFactores("dict", Valores19),
     ConFactores("lista", Valores19),
     ConFactores("dict", Valores19Mixtos),
     ConFactores("lista", Valores19Mixtos),
     ConFactores("dict", [i \in {8, 9} |->
                             IF i = 8 THEN Num(5000) ELSE Num(5001)]),
     ConFactores("dict", [i \in {8, 12} |->
                             IF i = 8 THEN Num(3000) ELSE [t |-> "none"]]),
     ConFactores("lista", [i \in 1..9 |-> IF i = 8 THEN Num(7000)
                                          ELSE IF i = 9 THEN Num(4000) ELSE Num(0)]),
     ConFactores("lista", [i \in 1..20 |-> IF i = 19 THEN Num(3000)
                                           ELSE IF i = 20 THEN Num(9000) ELSE Num(0)]),
     Poner(DocRef, "factores", [forma |-> "otro"]),
     DocRef}

\* stored documents that differ in their montoDeclarado field
PoolMonto ==
    {Poner(DocRef, "montoDeclarado", Num(1500000)),
     Poner([DocRef EXCEPT !.clienteId = "c2"], "montoDeclarado",
           [t |-> "txt", v |-> 20000]),
     Poner([DocRef EXCEPT !.clienteId = "c3"], "montoDeclarado", [t |-> "mal"]),
     Poner([DocRef EXCEPT !.clienteId = "c5"], "montoDeclarado", [t |-> "none"]),
     [DocRef EXCEPT !.esLocal = TRUE]}

InitNormalizar ==
    /\ datos \in {ConIds(s) : s \in SeqsHasta(PoolFactores, MaxDatos)
                                    \cup SeqsHasta(PoolMonto, MaxDatos)}
    /\ ventana = SinVentana
    /\ InitServicio

\* a call of preparar_dataframe on the stored documents
LlamarPrepararDataframe ==
    /\ Libre
    /\ LET df == preparar_dataframe(datos, rut_cache, consultas, {})
       IN  /\ rut_cache' = df.cache
           /\ consultas' = df.cons
           /\ ret' = [op |-> "preparar_dataframe", calificaciones |-> datos,
                      filas |-> df.filas, antes |-> EstadoServicio]
    /\ UNCHANGED <<datos, usuarios, salidas, ventana>>

\* the preview table of the reports window is filled with the stored
\* documents
LlamarVistaPrevia ==
    /\ Libre
    /\ LET lista == Primeros(datos, 50)
           vista == actualizar_vista_previa(lista,
                        [ruts |-> <<>>, cache |-> rut_cache, cons |-> consultas], {})
       IN  /\ rut_cache' = vista.cache
           /\ consultas' = vista.cons
           /\ ret' = [op |-> "actualizar_vista_previa", calificaciones |-> lista,
                      ruts |-> vista.ruts,
                      filas |-> [k \in 1..Len(lista) |-> VistaValidez(lista[k])]]
    /\ UNCHANGED <<datos, usuarios, salidas, ventana>>

\* the results table of the query window is filled with the stored
\* documents
LlamarActualizarTabla ==
    /\ Libre
    /\ LET tabla == actualizar_tabla(datos,
                        [filas |-> <<>>, cache |-> rut_cache, cons |-> consultas], {})
       IN  /\ rut_cache' = tabla.cache
           /\ consultas' = tabla.cons
           /\ ret' = [op |-> "actualizar_tabla", calificaciones |-> datos,
                      raised |-> tabla.raised, filas |-> tabla.filas]
    /\ UNCHANGED <<datos, usuarios, salidas, ventana>>

\* the administrator exports the stored documents; nothing fails in the
\* environment
EscenarioNormal ==
    [fallan |-> {}, falla_io |-> FALSE, falla_registro |-> "no",
     filtros |-> [estado |-> "ambos"], file_path |-> <<"d", "/", "r", ".", "c">>,
     con_progreso |-> TRUE]

LlamarExportarTodo ==
    /\ Libre
    /\ Len(archivos) < MaxExportaciones
    /\ Len(reportes) < MaxExportaciones
    /\ LET ex == ArgsExport(EscenarioNormal, "U1", "administrador")
       IN  \/ Exportado("exportar_csv", ex, exportar_csv(ex, EstadoServicio))
           \/ Exportado("exportar_excel", ex, exportar_excel(ex, EstadoServicio))

NextNormalizar ==
    \/ LlamarPrepararDataframe
    \/ LlamarVistaPrevia
    \/ LlamarActualizarTabla
    \/ LlamarExportarTodo
    \/ Retornar

SpecNormalizar == InitNormalizar /\ [][NextNormalizar]_vars

EsPreparado == ret.op = "preparar_dataframe"

\* the value of column col of a row
Columna(fila, col) == fila[CHOOSE k \in 1..Len(fila) : fila[k].col = col].val

\* every record of the call produced a row: row k is the row of record k
UnaFilaPorRegistro == Len(ret.filas) = Len(ret.calificaciones)

\* the value stored for factor i of a record, whether factores is keyed or
\* positional; Num(0) when the record stores none
FactorGuardado(cal, i) ==
    IF "factores" \notin DOMAIN cal THEN Num(0)
    ELSE IF cal.factores.forma = "otro" THEN Num(0)
    ELSE IF i \in DOMAIN cal.factores.v THEN cal.factores.v[i] ELSE Num(0)

\* what a factor contributes: its number, 0 when it has none
Aporte(x) == IF x.t \in {"num", "txt"} THEN x.v ELSE 0

\* the sum of the contributions of factors 8..19
SumaDeAportes(cal) ==
    LET S[i \in 7..19] == IF i = 7 THEN 0 ELSE S[i - 1] + Aporte(FactorGuardado(cal, i))
    IN  S[19]

\* C11 as the specification states it: the sum column is the sum of the
\* contributions of factors 8..19, a bad factor contributing 0 without
\* changing what the others contribute, and the validity column is derived
\* from that sum.
C11_Original ==
    (EsPreparado /\ UnaFilaPorRegistro) =>
        \A k \in 1..Len(ret.filas) :
            /\ Columna(ret.filas[k], "Suma Factores 8-19")
                   = SumaDeAportes(ret.calificaciones[k])
            /\ Columna(ret.filas[k], "Válido") = "Sí"
                   <=> SumaDeAportes(ret.calificaciones[k]) <= 10000

\* two records store the same nineteen factor values, the first keyed
\* factor_1..factor_19 and the second positionally
MismosValores(a, b) ==
    /\ "factores" \in DOMAIN a /\ "factores" \in DOMAIN b
    /\ a.factores.forma = "dict" /\ b.factores.forma = "lista"
    /\ DOMAIN a.factores.v = 1..19 /\ DOMAIN b.factores.v = 1..19
    /\ \A i \in 1..19 : a.factores.v[i] = b.factores.v[i]

ColumnasDeFactores ==
    {ColumnasFactor[i] : i \in 1..19} \cup {"Suma Factores 8-19", "Válido"}

\* C12: a record that stores nineteen factor values keyed factor_1..factor_19
\* and a record that stores the same values positionally get the same
\* factor columns, the same sum and the same validity.
C12_MismaRepresentacion ==
    (EsPreparado /\ UnaFilaPorRegistro) =>
        \A j, k \in 1..Len(ret.filas) :
            MismosValores(ret.calificaciones[j], ret.calificaciones[k]) =>
                \A col \in ColumnasDeFactores :
                    Columna(ret.filas[j], col) = Columna(ret.filas[k], col)

\* rows were prepared of a keyed and a positional record with the same
\* values, with a sum that is not zero
C12_Witness ==
    /\ EsPreparado
    /\ UnaFilaPorRegistro
    /\ Len(ret.filas) = 2
    /\ MismosValores(ret.calificaciones[1], ret.calificaciones[2])
    /\ Columna(ret.filas[2], "Suma Factores 8-19") = 10000
    /\ Columna(ret.filas[2], "Factor 1") = 2500


\* the amount and the factors 8..19 of the record are numbers and factores
\* is keyed (or absent)
BienFormado(cal) ==
    /\ Get(cal, "montoDeclarado", Num(0)).t = "num"
    /\ FactoresCrudos(cal).forma = "dict"
    /\ \A i \in 8..19 : FactorGuardado(cal, i).t = "num"

\* C13: the validity boundary is inclusive.  A row of preparar_dataframe is
\* 'Sí' exactly when its sum of factors 8..19 is at most 1.0 and
\* 'No (>1.0)' otherwise; the rows of the preview and of the query table
\* are valid exactly when their sum is at most 1.0; the Excel summary
\* counts as valid the records whose sum is at most 1.0; and for a record
\* with numeric factors these sums are the sum of its factors 8..19.
C13_LimiteInclusivo ==
    /\ (EsPreparado /\ UnaFilaPorRegistro) =>
          \A k \in 1..Len(ret.filas) :
              LET suma == Columna(ret.filas[k], "Suma Factores 8-19")
                  valido == Columna(ret.filas[k], "Válido")
              IN  /\ valido = (IF suma <= 10000 THEN "Sí" ELSE "No (>1.0)")
                  /\ BienFormado(ret.calificaciones[k]) =>
                         suma = SumaDeAportes(ret.calificaciones[k])
    /\ ret.op \in {"actualizar_vista_previa", "actualizar_tabla"} =>
          \A k \in 1..Len(ret.filas) :
              /\ ret.filas[k].valido = (IF ret.filas[k].suma <= 10000 THEN "Sí" ELSE "No")
              /\ ret.filas[k].resaltada <=> ret.filas[k].suma > 10000
              /\ BienFormado(ret.calificaciones[k]) =>
                     ret.filas[k].suma = SumaDeAportes(ret.calificaciones[k])
    /\ (ret.op = "exportar_excel" /\ ret.result.success) =>
          LET cals == ret.ex.calificaciones
              validos == {k \in 1..Len(cals) : SumaDeAportes(cals[k]) <= 10000}
              est == archivos[Len(archivos)].estadisticas
          IN  /\ est.validos = Cardinality(validos)
              /\ est.invalidos = Len(cals) - Cardinality(validos)

\* rows were prepared of a record whose factors 8..19 sum to exactly 1.0,
\* marked valid, and of one whose sum is 1.0001, marked invalid
C13_Witness ==
    /\ EsPreparado
    /\ Len(ret.filas) = 2
    /\ Columna(ret.filas[1], "Suma Factores 8-19") = 10000
    /\ Columna(ret.filas[1], "Válido") = "Sí"
    /\ Columna(ret.filas[2], "Suma Factores 8-19") = 10001
    /\ Columna(ret.filas[2], "Válido") = "No (>1.0)"

\* the amount of the record is a number and its factors are numbers, keyed
\* or positional
FactoresNumericos(cal) ==
    /\ Get(cal, "montoDeclarado", Num(0)).t = "num"
    /\ FactoresCrudos(cal).forma \in {"dict", "lista"}
    /\ \A i \in DOMAIN FactoresCrudos(cal).v : FactoresCrudos(cal).v[i].t = "num"

EsPosicional(cal) == FactoresCrudos(cal).forma = "lista"

\* C14 as the specification states it: an export of a non-empty authorized
\* list of records with numeric factors, some of them positional, in an
\* environment where nothing fails, returns success and writes the file,
\* and the Excel summary counts every record as valid or invalid.
C14_Original ==
    (/\ EsExportacion
     /\ ret.ex.calificaciones # <<>>
     /\ ret.ex.rol = "administrador"
     /\ ~ ret.ex.falla_io
     /\ \A k \in 1..Len(ret.ex.calificaciones) :
            FactoresNumericos(ret.ex.calificaciones[k])
     /\ \E k \in 1..Len(ret.ex.calificaciones) :
            EsPosicional(ret.ex.calificaciones[k]))
    => /\ ret.result.success
       /\ EscribioArchivo
       /\ ret.op = "exportar_excel" =>
              LET est == archivos[Len(archivos)].estadisticas
              IN  est.validos + est.invalidos = Len(ret.ex.calificaciones)

\* float() accepts the amount of the record
Normalizable(cal) == Get(cal, "montoDeclarado", Num(0)).t \in {"num", "txt"}

\* the row is the row of the record: its amount, its locality and, when the
\* client has a user document with a RUT, that RUT
FilaDe(fila, cal) ==
    /\ Columna(fila, "Monto Declarado") = Aporte(Get(cal, "montoDeclarado", Num(0)))
    /\ Columna(fila, "Estado") = (IF Get(cal, "esLocal", FALSE) THEN "Local" ELSE "Bolsa")
    /\ LET c == Get(cal, "clienteId", "")
       IN  (c \in DOMAIN usuarios /\ "rut" \in DOMAIN usuarios[c])
               => Columna(fila, "RUT Cliente") = StrRut(usuarios[c].rut)

\* C15: preparar_dataframe skips the records whose normalization fails and
\* goes on: its rows are the rows of the normalizable records, one each, in
\* input order; with no normalizable record the table is empty.
C15_OmiteYContinua ==
    EsPreparado =>
        LET normalizables == SelectSeq(ret.calificaciones, Normalizable)
        IN  /\ Len(ret.filas) = Len(normalizables)
            /\ \A k \in 1..Len(normalizables) : FilaDe(ret.filas[k], normalizables[k])

\* rows were prepared of a record whose amount float() rejects followed by
\* a normalizable one: one row, of the second record
C15_Witness ==
    /\ EsPreparado
    /\ Len(ret.calificaciones) = 2
    /\ ~ Normalizable(ret.calificaciones[1])
    /\ Normalizable(ret.calificaciones[2])
    /\ Len(ret.filas) = 1
    /\ Columna(ret.filas[1], "Monto Declarado") = 20000

\* the fixed ordered column set
ColumnasFijas ==
    <<"RUT Cliente", "Fecha Declaración", "Tipo Impuesto", "País", "Monto Declarado">>
        \o ColumnasFactor \o <<"Suma Factores 8-19", "Estado", "Válido">>

\* every row has the fixed ordered column set, and the normalizable
\* records have one row each
ColumnasYFilasFijas ==
    /\ \A k \in 1..Len(ret.filas) :
           [c \in 1..Len(ret.filas[k]) |-> ret.filas[k][c].col] = ColumnasFijas
    /\ Len(ret.filas) = Len(SelectSeq(ret.calificaciones, Normalizable))

\* C16 as the specification states it: every row has the fixed ordered
\* column set, a bad factor drops no record, and each factor column holds
\* the number of the factor, 0 for a factor that is missing or is not a
\* number.
C16_Original ==
    EsPreparado =>
        /\ ColumnasYFilasFijas
        /\ LET normalizables == SelectSeq(ret.calificaciones, Normalizable)
           IN  \A k \in 1..Len(ret.filas) : \A i \in 1..19 :
                   Columna(ret.filas[k], ColumnasFactor[i])
                       = Aporte(FactorGuardado(normalizables[k], i))

\* what a factor shows in its column: a list-valued factor shows what its
\* first element contributes (0 when it has none)
AporteDeColumna(x) ==
    IF x.t = "lista"
    THEN (IF Len(x.v) > 0 THEN Aporte(x.v[1]) ELSE 0)
    ELSE Aporte(x)

\* C16, amended: every row has the fixed ordered column set, a bad factor
\* drops no record, and each factor column holds the number of the factor:
\* 0 for a factor that is missing (also beyond the end of a short
\* positional sequence) or that float() rejects, and for a list-valued
\* factor the number of its first element (0 when the list is empty or its
\* first element is not a number); positional elements beyond the 19th are
\* ignored.
C16_ColumnasFijas ==
    EsPreparado =>
        /\ ColumnasYFilasFijas
        /\ LET normalizables == SelectSeq(ret.calificaciones, Normalizable)
           IN  \A k \in 1..Len(ret.filas) : \A i \in 1..19 :
                   Columna(ret.filas[k], ColumnasFactor[i])
                       = AporteDeColumna(FactorGuardado(normalizables[k], i))

\* rows were prepared of a record with a list-valued factor 3, an
\* unparsable factor 10 and a parsable str as factor 11, and of a
\* positional record of 20 elements
C16_Witness ==
    /\ EsPreparado
    /\ Len(ret.filas) = 2
    /\ Len(ret.calificaciones) = 2
    /\ FactorGuardado(ret.calificaciones[1], 3).t = "lista"
    /\ Columna(ret.filas[1], "Factor 3") = 2500
    /\ Columna(ret.filas[1], "Factor 10") = 0
    /\ Columna(ret.filas[1], "Factor 11") = 2000
    /\ EsPosicional(ret.calificaciones[2])
    /\ Len(FactoresCrudos(ret.calificaciones[2]).v) = 20
    /\ Columna(ret.filas[2], "Factor 19") = 3000

-----------------------------------------------------------------------------
(* Properties of the exports and of the history *)

\* the call left the files, the history and the audit trail as they were
SinSalidas ==
    /\ archivos = ret.antes.archivos
    /\ reportes = ret.antes.reportes
    /\ auditoria = ret.antes.auditoria

\* C17: an export of an empty list returns the failure 'No hay datos para
\* exportar', writes no file, adds no history entry, logs no audit event
\* and reports no progress.
C17_VacioSinEfecto ==
    (EsExportacion /\ ret.ex.calificaciones = <<>>) =>
        /\ ret.result = Fracaso("No hay datos para exportar")
        /\ SinSalidas
        /\ ret.progreso = <<>>
        /\ rut_cache = ret.antes.cache

\* an export was called with an empty list and a progress callback
C17_Witness ==
    /\ EsExportacion
    /\ ret.ex.calificaciones = <<>>
    /\ ret.ex.con_progreso
    /\ ~ ret.result.success
    /\ archivos = <<>>

\* C18 as the specification states it: a successful export writes one data
\* row per authorized record, and the count in its result and the count in
\* the history entry are the number of data rows written.
C18_Original ==
    (EsExportacion /\ ret.result.success) =>
        LET escrito == archivos[Len(archivos)]
            autorizadas == IF ret.ex.rol = "administrador"
                           THEN ret.ex.calificaciones ELSE Permitidas(ret.ex)
        IN  /\ EscribioArchivo
            /\ Len(escrito.filas) = Len(autorizadas)
            /\ ret.result.total_registros = Len(escrito.filas)
            /\ AgregoReporte =>
                   reportes[Len(reportes)].totalRegistros = Len(escrito.filas)

-----------------------------------------------------------------------------
(* Exports in sequence and the history *)

\* stored documents: one any identity may export, one only its owner may
PoolHistorial ==
    {DocRef,
     [DocRef EXCEPT !.esLocal = TRUE, !.propietarioRegistroId = "U2",
                    !.clienteId = "c2"]}

\* the identities that export
Identidades ==
    {[usuario_id |-> "U1", rol |-> "administrador"],
     [usuario_id |-> "U1", rol |-> "cliente"]}

\* bound: files written by the exports of one behaviour
MaxHistorial == 2

InitHistorial ==
    /\ datos \in {ConIds(s) : s \in SeqsHasta(PoolHistorial, MaxDatos)}
    /\ ventana = SinVentana
    /\ InitServicio
    /\ ret = [op |-> "libre"]

\* a call of exportar_csv, after other exports
LlamarExportarCsvEnSerie ==
    /\ Libre
    /\ Len(archivos) < MaxHistorial
    /\ \E esc \in Escenarios, i \in Identidades :
        LET ex == ArgsExport(esc, i.usuario_id, i.rol)
        IN  Exportado("exportar_csv", ex, exportar_csv(ex, EstadoServicio))

\* a call of exportar_excel, after other exports
LlamarExportarExcelEnSerie ==
    /\ Libre
    /\ Len(archivos) < MaxHistorial
    /\ \E esc \in Escenarios, i \in Identidades :
        LET ex == ArgsExport(esc, i.usuario_id, i.rol)
        IN  Exportado("exportar_excel", ex, exportar_excel(ex, EstadoServicio))

NextHistorial ==
    \/ LlamarExportarCsvEnSerie
    \/ LlamarExportarExcelEnSerie
    \/ Retornar

SpecHistorial == InitHistorial /\ [][NextHistorial]_vars

\* a call of registrar_reporte with the arguments an export would give it
LlamarRegistrarReporte ==
    /\ Libre
    /\ Len(reportes) < MaxExportaciones
    /\ \E esc \in Escenarios, formato \in {"CSV", "Excel"} :
        LET rr == ArgsRegistro(ArgsExport(esc, "U1", "administrador"),
                               datos, formato)
            reg == registrar_reporte(rr, reportes, auditoria, esc.falla_registro)
        IN  /\ reportes' = reg.historial
            /\ auditoria' = reg.auditados
            /\ ret' = [op |-> "registrar_reporte", rr |-> rr,
                       falla |-> esc.falla_registro, res |-> reg.ok,
                       antes |-> EstadoServicio]
            /\ UNCHANGED <<datos, usuarios, rut_cache, consultas, archivos, ventana>>

\* exports and direct calls of registrar_reporte
NextRegistro ==
    \/ LlamarExportarCsv
    \/ LlamarExportarExcel
    \/ LlamarRegistrarReporte
    \/ Retornar

SpecRegistro == InitHistorial /\ [][NextRegistro]_vars

\* the format an export records
FormatoDe(op) == IF op = "exportar_csv" THEN "CSV" ELSE "Excel"

\* the entry is the one of the export call that has just returned
EntradaDeLaLlamada(entrada) ==
    /\ entrada.usuarioGeneradorId = ret.ex.usuario_id
    /\ entrada.formato = FormatoDe(ret.op)
    /\ entrada.nombreArchivo = NombreArchivo(ret.ex.file_path)
    /\ entrada.totalRegistros = ret.result.total_registros

\* the entry names the file and its format
EntradaDelArchivo(entrada, archivo) ==
    /\ entrada.nombreArchivo = NombreArchivo(archivo.file_path)
    /\ entrada.formato = archivo.formato

\* C19 as the specification states it: the history holds exactly one entry
\* per export that returned success, which carries its user id, format,
\* file name and record count, and none per export that returned failure.
\* (An export returns success exactly when it writes its file, so the files
\* written count the successful exports.)
C19_Original ==
    /\ Len(reportes) = Len(archivos)
    /\ \A k \in 1..Len(reportes) : EntradaDelArchivo(reportes[k], archivos[k])
    /\ EsExportacion =>
          /\ ret.result.success <=> EscribioArchivo
          /\ ret.result.success <=> AgregoReporte
          /\ AgregoReporte => EntradaDeLaLlamada(reportes[Len(reportes)])

\* C19, amended: the history is append-only and holds one entry, in call
\* order, per export that returned success and whose history append did not
\* fail, carrying that export's user id, format, file name and reported
\* record count; an export that returned failure, and a successful one
\* whose append failed, add none.
C19_UnaEntradaPorRegistro ==
    /\ \E f \in [1..Len(reportes) -> 1..Len(archivos)] :
          /\ \A j, k \in 1..Len(reportes) : j < k => f[j] < f[k]
          /\ \A k \in 1..Len(reportes) :
                EntradaDelArchivo(reportes[k], archivos[f[k]])
    /\ EsExportacion =>
          /\ ret.result.success <=> EscribioArchivo
          /\ AgregoReporte <=>
                (ret.result.success /\ ret.ex.falla_registro # "add")
          /\ Len(reportes) <= Len(ret.antes.reportes) + 1
          /\ SubSeq(reportes, 1, Len(ret.antes.reportes)) = ret.antes.reportes
          /\ AgregoReporte => EntradaDeLaLlamada(reportes[Len(reportes)])

\* a successful export whose history append failed was followed by a
\* successful export to another path, whose entry is the only one
C19_Witness ==
    /\ EsExportacion
    /\ ret.result.success
    /\ AgregoReporte
    /\ Len(archivos) = 2
    /\ Len(reportes) = 1
    /\ archivos[1].file_path # archivos[2].file_path
    /\ NombreArchivo(ret.ex.file_path) # ret.ex.file_path

\* the value of the export call that has just returned, had its history
\* append not failed
SinFalloDeHistorial ==
    LET ex == [ret.ex EXCEPT !.falla_registro = "no"]
    IN  IF ret.op = "exportar_csv" THEN exportar_csv(ex, ret.antes)
        ELSE exportar_excel(ex, ret.antes)

\* C20: when the history append fails, registrar_reporte returns False and
\* leaves the history and the audit trail as they were; the enclosing
\* export returns the result, reports the progress and leaves the files it
\* would have with no such failure (its success result and its written
\* file, when it reaches the write), and adds no history entry and no
\* audit event.
C20_FalloDeHistorialNoBloquea ==
    /\ (ret.op = "registrar_reporte" /\ ret.falla = "add") =>
          /\ ret.res = FALSE
          /\ SinSalidas
    /\ (EsExportacion /\ ret.ex.falla_registro = "add") =>
          /\ ret.result = SinFalloDeHistorial.result
          /\ ret.progreso = SinFalloDeHistorial.progreso
          /\ archivos = SinFalloDeHistorial.archivos
          /\ reportes = ret.antes.reportes
          /\ auditoria = ret.antes.auditoria

\* an export whose history append failed returned success
C20_Witness ==
    /\ EsExportacion
    /\ ret.ex.falla_registro = "add"
    /\ ret.result.success
    /\ EscribioArchivo
    /\ archivos[Len(archivos)].file_path = ret.ex.file_path
    /\ reportes = <<>>
    /\ auditoria = <<>>

-----------------------------------------------------------------------------
(* The history: queries and appends *)

\* an entry an earlier session stored: the k-th of the collection, with
\* generation times that do not follow the storage order
EntradaGuardada(k) ==
    [usuarioGeneradorId |-> IF k % 3 = 0 THEN "U2" ELSE "U1",
     tipoReporte |-> "exportacion_calificaciones",
     filtrosAplicados |-> FiltrosFirestore([estado |-> "ambos"]),
     totalRegistros |-> k,
     formato |-> IF k % 2 = 0 THEN "CSV" ELSE "Excel",
     nombreArchivo |-> <<"r", ".", "c">>,
     fechaGeneracion |-> (k * 7) % 83]

\* stored histories, shorter and longer than the limit of the query
HistorialesGuardados ==
    {[k \in 1..n |-> EntradaGuardada(k)] : n \in {0, 1, 3, 50, 51, 80}}

\* the callers of the history query: user id (None when the user document
\* has no _id) and role
UsuariosHistorial == {"U1", "U2", None}
RolesHistorial == {"administrador", "auditor_tributario", "cliente", "analista"}

InitConsultaHistorial ==
    /\ datos = <<>>
    /\ ventana = SinVentana
    /\ usuarios = UsuariosIniciales
    /\ rut_cache = CacheVacio
    /\ consultas = [c \in ClienteIds |-> 0]
    /\ archivos = <<>>
    /\ reportes \in HistorialesGuardados
    /\ auditoria = <<>>
    /\ ret = [op |-> "libre"]

\* a call of obtener_historial_reportes
LlamarObtenerHistorial ==
    /\ Libre
    /\ \E usuario_id \in UsuariosHistorial, rol \in RolesHistorial,
          falla \in BOOLEAN :
        ret' = [op |-> "obtener_historial_reportes", usuario_id |-> usuario_id,
                rol |-> rol, falla |-> falla,
                res |-> obtener_historial_reportes(usuario_id, rol, reportes, falla)]
    /\ UNCHANGED <<datos, usuarios, rut_cache, consultas, salidas, ventana>>

NextConsultaHistorial ==
    \/ LlamarObtenerHistorial
    \/ Retornar

SpecConsultaHistorial == InitConsultaHistorial /\ [][NextConsultaHistorial]_vars

EsConsultaHistorial == ret.op = "obtener_historial_reportes"

\* the stored entry a returned entry is the copy of
Guardada(r) == reportes[r._id]

\* C22: obtener_historial_reportes returns entries of other users only to
\* the roles administrador and auditor_tributario: for every other role
\* each returned entry has usuarioGeneradorId equal to the caller's
\* usuario_id.  For every role the result holds at most 50 entries, each a
\* stored entry, none twice, ordered by generation time, most recent first.
C22_HistorialPorRol ==
    EsConsultaHistorial =>
        /\ ret.rol \notin {"administrador", "auditor_tributario"} =>
              \A k \in 1..Len(ret.res) :
                  ret.res[k].usuarioGeneradorId = ret.usuario_id
        /\ Len(ret.res) <= 50
        /\ \A k \in 1..Len(ret.res) :
              /\ ret.res[k]._id \in 1..Len(reportes)
              /\ ret.res[k] = Poner(Guardada(ret.res[k]), "_id", ret.res[k]._id)
        /\ \A j, k \in 1..Len(ret.res) :
              j < k => /\ ret.res[j].fechaGeneracion >= ret.res[k].fechaGeneracion
                       /\ ret.res[j]._id # ret.res[k]._id

\* a client with more than 50 entries of their own, stored among entries
\* of another user, got their 50 most recent ones
C22_Witness ==
    /\ EsConsultaHistorial
    /\ ret.rol = "cliente" /\ ret.usuario_id = "U1"
    /\ Len(ret.res) = 50
    /\ \E k \in 1..Len(reportes) : reportes[k].usuarioGeneradorId = "U2"
    /\ \A k \in 1..Len(reportes) :
          (reportes[k].usuarioGeneradorId = "U1"
               /\ \A j \in 1..50 : ret.res[j]._id # k)
              => reportes[k].fechaGeneracion < ret.res[50].fechaGeneracion

\* one stored document, an empty history and no file
InitAnexar ==
    /\ datos = ConIds(<<DocRef>>)
    /\ ventana = SinVentana
    /\ InitServicio

\* a call of obtener_datos_filtrados without date, type, country or RUT
\* filter
LlamarObtenerDatosAmbos ==
    /\ Libre
    /\ \E usuario_id \in Usuarios, rol \in Roles :
        LET ll == [filtros |-> [estado |-> "ambos"], usuario_id |-> usuario_id,
                   rol |-> rol, fallan |-> {}, falla_consulta |-> FALSE]
            out == obtener_datos_filtrados(ll, rut_cache, consultas)
        IN  /\ rut_cache' = out.cache
            /\ consultas' = out.cons
            /\ ret' = [op |-> "obtener_datos_filtrados", ll |-> ll,
                       cache_antes |-> rut_cache, res |-> out.res, exc |-> out.exc]
            /\ UNCHANGED <<datos, usuarios, salidas, ventana>>

\* a call of registrar_reporte on a history that may hold entries
LlamarRegistrarReporteEnSerie ==
    /\ Libre
    /\ Len(reportes) < MaxHistorial
    /\ \E esc \in Escenarios :
        LET rr == ArgsRegistro(ArgsExport(esc, "U2", "cliente"), datos, "CSV")
            reg == registrar_reporte(rr, reportes, auditoria, esc.falla_registro)
        IN  /\ reportes' = reg.historial
            /\ auditoria' = reg.auditados
            /\ ret' = [op |-> "registrar_reporte", rr |-> rr,
                       falla |-> esc.falla_registro, res |-> reg.ok,
                       antes |-> EstadoServicio]
            /\ UNCHANGED <<datos, usuarios, rut_cache, consultas, archivos, ventana>>

\* a call of obtener_historial_reportes by one of the exporting identities
LlamarObtenerHistorialPropio ==
    /\ Libre
    /\ \E i \in Identidades :
        ret' = [op |-> "obtener_historial_reportes", usuario_id |-> i.usuario_id,
                rol |-> i.rol, falla |-> FALSE,
                res |-> obtener_historial_reportes(i.usuario_id, i.rol, reportes,
                                                   FALSE)]
    /\ UNCHANGED <<datos, usuarios, rut_cache, consultas, salidas, ventana>>

NextAnexar ==
    \/ LlamarObtenerDatosAmbos
    \/ LlamarExportarCsvEnSerie
    \/ LlamarExportarExcelEnSerie
    \/ LlamarRegistrarReporteEnSerie
    \/ LlamarObtenerHistorialPropio
    \/ Retornar

SpecAnexar == InitAnexar /\ [][NextAnexar]_vars

\* C21: the history is append-only: no step of a filter, export, record or
\* history-query operation removes or changes an entry, and a step adds at
\* most one entry, at the end.
C21_SoloAnexa ==
    [][/\ Len(reportes) <= Len(reportes')
       /\ Len(reportes') <= Len(reportes) + 1
       /\ SubSeq(reportes', 1, Len(reportes)) = reportes]_vars

\* a history query returned both entries of a history to which an export
\* and a direct call of registrar_reporte have appended
C21_Witness ==
    /\ EsConsultaHistorial
    /\ Len(reportes) = 2
    /\ Len(ret.res) = 2
    /\ Len(archivos) = 1
    /\ reportes[1].usuarioGeneradorId # reportes[2].usuarioGeneradorId

-----------------------------------------------------------------------------
(* Faults at the boundary of the service *)

\* C23 as the specification states it, for obtener_rut_cliente: the call
\* raises nothing for any input, and returns "N/A" when the read of the
\* user document raises.
C23_Original ==
    /\ ret.op = "obtener_rut_cliente_de" =>
          /\ ~ ret.raised
          /\ (ret.falla /\ ret.valor.t = "str") => ret.res = NA
    /\ (EsLecturaRut /\ ret.falla /\ ret.leido) => ret.res = NA

-----------------------------------------------------------------------------
(* The reports window on a collection larger than the cap of the query *)

\* a stored document with no field but activo
DocMinimo == [activo |-> TRUE]

\* a collection of n such documents
Muchos(n) == ConIds([i \in 1..n |-> DocMinimo])

\* collections of a few documents under the window of each user, and one
\* of a document more than the cap under the window of an administrator
InitTope ==
    /\ \/ /\ datos \in {Muchos(n) : n \in 0..MaxDatos}
          /\ ventana \in {VentanaInicial(u) : u \in UserData}
       \/ /\ datos = Muchos(MAX_RECORDS + 1)
          /\ ventana = VentanaInicial([_id |-> "U1", rol |-> "administrador"])
    /\ InitServicio

\* the user sets the filter widgets and applies the filters
NextTope ==
    \/ CambiarFiltros
    \/ aplicar_filtros

SpecTope == InitTope /\ [][NextTope]_vars

\* the stored documents with activo == True
NumActivos == Len(SelectSeq(datos, LAMBDA d : Get(d, "activo", FALSE) = TRUE))

\* C24 as the specification states it: the records loaded by the reports
\* window are among the first 10,000 active ones, and when more than
\* 10,000 active records are stored the window shows a notice.
C24_Original ==
    (ret.op = "aplicar_filtros" /\ ret.aviso \in {"", "Gran volumen de datos"}) =>
        /\ Len(ventana.datos_actuales) <= MAX_RECORDS
        /\ \A k \in 1..Len(ventana.datos_actuales) :
              ventana.datos_actuales[k]._id <= MAX_RECORDS
        /\ NumActivos > MAX_RECORDS => ret.aviso = "Gran volumen de datos"

\* ---------------------------------------------------------------------
\* The reports window and its export worker
\* ---------------------------------------------------------------------

\* the ExportWorker threads running at one time are at most this many
MaxTrabajadores == 1

\* what QFileDialog.getSaveFileName returns: <<>> when the user cancels
RutasDialogo == {<<>>, <<"d", "/", "r", ".", "c">>}

\* ExportWorker.__init__; pc is the position of run, emitidas the signals
\* the thread has emitted, result the value the service returned to run
ExportWorker(file_path, calificaciones, filtros, usuario_id, formato) ==
    [file_path |-> file_path, datos |-> calificaciones, filtros |-> filtros,
     usuario_id |-> usuario_id, formato |-> formato, pc |-> "preparando",
     emitidas |-> <<>>, result |-> Fracaso("")]

\* QThread.isRunning
isRunning(w) == w.pc \notin {"terminado", "terminate"}

\* the ExportWorker threads of the window that are running
EnCurso == {k \in DOMAIN ventana.trabajadores : isRunning(ventana.trabajadores[k])}

\* the parameters exportar_csv and exportar_excel require after self
Parametros == <<"file_path", "calificaciones", "filtros", "usuario_id", "rol">>

\* the arguments run passes to the export of the service
Argumentos(w) == <<w.file_path, w.datos, w.filtros, w.usuario_id>>

\* the export of the service on the arguments of run, once they are bound
\* to its parameters; no progress_callback is passed
ServicioExportar(w) ==
    LET args == Argumentos(w)
        ex == [calificaciones |-> args[2], usuario_id |-> args[4],
               rol |-> args[5], file_path |-> args[1], filtros |-> args[3],
               con_progreso |-> FALSE, fallan |-> {}, falla_io |-> FALSE,
               falla_registro |-> "no"]
    IN  IF w.formato = "CSV" THEN exportar_csv(ex, EstadoServicio)
        ELSE exportar_excel(ex, EstadoServicio)

\* self.progress.emit(valor, ...)
SenalProgress(valor) == [senal |-> "progress", valor |-> valor]

\* self.finished.emit(result)
SenalFinished(result) == [senal |-> "finished", result |-> result]

\* thread k emits s and moves to pc: the signal is queued for the slots of
\* the window, which run in the thread of the window
Emitir(k, s, pc) ==
    ventana' = [ventana EXCEPT !.trabajadores[k].pc = pc,
                               !.trabajadores[k].emitidas = Append(@, s),
                               !.senales = Append(@, s)]

\* ExportWorker.run, one step of one running thread: the two progress
\* signals, the call of the service, the last two progress signals and
\* finished.  The call passes four arguments to five required parameters:
\* Python raises TypeError before the body of the export runs, and the
\* except of run emits finished with a failure.
ExportWorker_run ==
    /\ ventana.activa
    /\ \E k \in EnCurso :
        LET w == ventana.trabajadores[k]
        IN  CASE w.pc = "preparando" ->
                    /\ Emitir(k, SenalProgress(25), "generando")
                    /\ UNCHANGED <<datos, usuarios, rut_cache, consultas, salidas, ret>>
              [] w.pc = "generando" ->
                    /\ Emitir(k, SenalProgress(50), "llamada")
                    /\ UNCHANGED <<datos, usuarios, rut_cache, consultas, salidas, ret>>
              [] w.pc = "llamada" ->
                    IF Len(Argumentos(w)) < Len(Parametros)
                    THEN /\ Emitir(k, SenalFinished(Fracaso("Error inesperado: TypeError")),
                                   "terminado")
                         /\ UNCHANGED <<datos, usuarios, rut_cache, consultas,
                                        salidas, ret>>
                    ELSE \E out \in {ServicioExportar(w)} :
                         /\ ventana' = [ventana EXCEPT
                                           !.trabajadores[k].pc = "registrando",
                                           !.trabajadores[k].result = out.result]
                         /\ rut_cache' = out.cache
                         /\ consultas' = out.cons
                         /\ archivos' = out.archivos
                         /\ reportes' = out.reportes
                         /\ auditoria' = out.auditoria
                         /\ UNCHANGED <<datos, usuarios, ret>>
              [] w.pc = "registrando" ->
                    /\ Emitir(k, SenalProgress(90), "completado")
                    /\ UNCHANGED <<datos, usuarios, rut_cache, consultas, salidas, ret>>
              [] w.pc = "completado" ->
                    /\ Emitir(k, SenalProgress(100), "fin")
                    /\ UNCHANGED <<datos, usuarios, rut_cache, consultas, salidas, ret>>
              [] w.pc = "fin" ->
                    /\ Emitir(k, SenalFinished(w.result), "terminado")
                    /\ UNCHANGED <<datos, usuarios, rut_cache, consultas, salidas, ret>>

\* GenerarReportesContent.actualizar_progreso: setValue on the dialog the
\* window refers to.  The maximum, 100, resets and hides the dialog; a
\* lower value may show again a dialog the user closed by its frame.
DialogoTrasProgreso(dialogo, valor) ==
    IF dialogo = "None" THEN {"None"}
    ELSE IF valor = 100 THEN {"oculto"}
    ELSE {dialogo, "visible"}

\* GenerarReportesContent.cargar_historial: the rows of the history table
HistorialCargado(v) ==
    [v EXCEPT !.historial_filas =
        Len(obtener_historial_reportes(Get(v.user_data, "_id", None),
                                       v.user_rol, reportes, FALSE))]

\* GenerarReportesContent.exportacion_completada: the dialog is closed and
\* forgotten, the message is shown, and the history table is reloaded
\* after a success
Completada(v, result) ==
    LET cerrada == [v EXCEPT !.progress_dialog = "None"]
    IN  IF result.success THEN HistorialCargado(cerrada) ELSE cerrada

\* QApplication.processEvents() of line 850 (914), called with the new
\* dialog shown and before the thread is created: the slots of the
\* signals in s run in order
RECURSIVE ProcesarEventos(_, _)
ProcesarEventos(v, s) ==
    IF s = <<>> THEN v
    ELSE IF Head(s).senal = "finished"
    THEN ProcesarEventos(Completada(v, Head(s).result), Tail(s))
    ELSE ProcesarEventos(
            [v EXCEPT !.progress_dialog =
                IF @ # "None" /\ Head(s).valor = 100 THEN "oculto" ELSE @],
            Tail(s))

\* GenerarReportesContent.exportar_csv and exportar_excel, which differ in
\* the format only: the warning on no data, the file dialog, the progress
\* dialog (WindowModal, no cancel button), the filters read from the
\* widgets at this moment, and the thread created, connected and started.
\* self.export_worker now refers to the new thread: of the earlier ones
\* those still running live on, the others are discarded.
iniciar_exportacion(formato) ==
    LET op == IF formato = "CSV" THEN "exportar_csv" ELSE "exportar_excel"
    IN  IF ventana.datos_actuales = <<>>
        THEN /\ ret' = [op |-> op, aviso |-> "Sin datos"]
             /\ UNCHANGED <<datos, usuarios, rut_cache, consultas, salidas, ventana>>
        ELSE \E file_path \in RutasDialogo :
             IF file_path = <<>>
             THEN /\ ret' = [op |-> op, aviso |-> "Sin archivo"]
                  /\ UNCHANGED <<datos, usuarios, rut_cache, consultas, salidas,
                                 ventana>>
             ELSE /\ Cardinality(EnCurso) < MaxTrabajadores
                  /\ ventana' = [ProcesarEventos(
                                    [ventana EXCEPT !.progress_dialog = "visible"],
                                    ventana.senales) EXCEPT
                        !.senales = <<>>,
                        !.trabajadores =
                            Append(SelectSeq(@, isRunning),
                                   ExportWorker(file_path, ventana.datos_actuales,
                                          obtener_filtros(ventana.widgets),
                                          Get(ventana.user_data, "_id", None),
                                          formato))]
                  /\ ret' = [op |-> op, aviso |-> ""]
                  /\ UNCHANGED <<datos, usuarios, rut_cache, consultas, salidas>>

\* the slot of the refresh button of the history
cargar_historial ==
    /\ ventana' = HistorialCargado(ventana)
    /\ UNCHANGED <<datos, usuarios, rut_cache, consultas, salidas>>

\* GenerarReportesContent.cancelar_exportacion: terminate() and wait() on
\* the thread self.export_worker refers to, the last one started
cancelar_exportacion ==
    LET n == Len(ventana.trabajadores)
    IN  IF n > 0 /\ n \in EnCurso
        THEN /\ ventana' = [ventana EXCEPT
                               !.trabajadores[n].pc = "terminate",
                               !.progress_dialog =
                                   IF @ = "None" THEN @ ELSE "oculto"]
             /\ ret' = [op |-> "cancelar_exportacion", aviso |-> "Cancelado"]
             /\ UNCHANGED <<datos, usuarios, rut_cache, consultas, salidas>>
        ELSE /\ ret' = [op |-> "cancelar_exportacion", aviso |-> ""]
             /\ UNCHANGED <<datos, usuarios, rut_cache, consultas, salidas, ventana>>

\* a window whose progress dialog has a button connected to
\* cancelar_exportacion
Conexiones_ConCancelar ==
    {"limpiar_filtros", "aplicar_filtros", "exportar_csv", "exportar_excel",
     "cargar_historial", "cancelar_exportacion"}

\* the slots of the window that init_ui connects to the clicked signal of
\* a button (lines 267, 285, 433, 458 and 544)
Conexiones ==
    {"limpiar_filtros", "aplicar_filtros", "exportar_csv", "exportar_excel",
     "cargar_historial"}

\* the button of slot h takes a click: it is enabled, and the window is
\* not behind its modal progress dialog
Pulsable(h) ==
    /\ h = "exportar_csv" => ventana.btn_csv
    /\ h = "exportar_excel" => ventana.btn_excel
    /\ h # "cancelar_exportacion" => ventana.progress_dialog # "visible"
    /\ h = "cancelar_exportacion" => ventana.progress_dialog = "visible"

\* the user clicks a button and the slot connected to it runs
Clic ==
    /\ ventana.activa
    /\ \E h \in Conexiones :
        /\ Pulsable(h)
        /\ CASE h = "limpiar_filtros" -> limpiar_filtros
             [] h = "aplicar_filtros" -> aplicar_filtros
             [] h = "exportar_csv" -> iniciar_exportacion("CSV")
             [] h = "exportar_excel" -> iniciar_exportacion("Excel")
             [] h = "cargar_historial" ->
                    cargar_historial /\ ret' = [op |-> "cargar_historial"]
             [] h = "cancelar_exportacion" -> cancelar_exportacion

\* the entries of the country combo the user chooses among
PaisesCombo == {"Todos", "Perú"}

\* the user chooses another country while no modal dialog is in front
CambiarPais ==
    /\ ventana.activa
    /\ ventana.progress_dialog # "visible"
    /\ \E pais \in PaisesCombo \ {ventana.widgets.combo_pais} :
        ventana' = [ventana EXCEPT !.widgets.combo_pais = pais]
    /\ UNCHANGED <<datos, usuarios, rut_cache, consultas, salidas, ret>>

\* the user dismisses the progress dialog (Escape, or the close button of
\* its frame): the dialog is a QDialog created with no cancel button and
\* with nothing connected to its canceled or rejected signals, so it hides
\* and the thread goes on
DescartarDialogo ==
    /\ ventana.activa
    /\ ventana.progress_dialog = "visible"
    /\ ventana' = [ventana EXCEPT !.progress_dialog = "oculto"]
    /\ UNCHANGED <<datos, usuarios, rut_cache, consultas, salidas, ret>>

\* the slot of the next queued progress signal runs
actualizar_progreso ==
    /\ ventana.activa
    /\ ventana.senales # <<>>
    /\ Head(ventana.senales).senal = "progress"
    /\ \E d \in DialogoTrasProgreso(ventana.progress_dialog,
                                    Head(ventana.senales).valor) :
        ventana' = [ventana EXCEPT !.senales = Tail(@), !.progress_dialog = d]
    /\ UNCHANGED <<datos, usuarios, rut_cache, consultas, salidas, ret>>

\* the slot of the next queued finished signal runs
exportacion_completada ==
    /\ ventana.activa
    /\ ventana.senales # <<>>
    /\ Head(ventana.senales).senal = "finished"
    /\ ventana' = [Completada(ventana, Head(ventana.senales).result)
                      EXCEPT !.senales = Tail(@)]
    /\ UNCHANGED <<datos, usuarios, rut_cache, consultas, salidas, ret>>

\* a collection of one record of the default date range, and the window
\* of an administrator or of a user with no role
InitTrabajo ==
    /\ datos = ConIds(<<[DocRef EXCEPT !.fechaDeclaracion = strftime(F3)]>>)
    /\ ventana \in {VentanaInicial(u) :
                        u \in {[_id |-> "U1", rol |-> "administrador"],
                                [_id |-> "U2"]}}
    /\ InitServicio

NextTrabajo ==
    \/ CambiarPais
    \/ Clic
    \/ DescartarDialogo
    \/ ExportWorker_run
    \/ actualizar_progreso
    \/ exportacion_completada

SpecTrabajo == InitTrabajo /\ [][NextTrabajo]_vars

\* the thread self.export_worker refers to
export_worker == ventana.trabajadores[Len(ventana.trabajadores)]

\* the last slot that ran started an export
ExportacionIniciada ==
    /\ ret.op \in {"exportar_csv", "exportar_excel"}
    /\ ret.aviso = ""

\* C25 as the specification states it: the filters handed to an export
\* started from the reports window are the filters that were handed to
\* obtener_datos_filtrados when the exported datos_actuales was fetched.
C25_Original ==
    ExportacionIniciada =>
        /\ export_worker.datos = ventana.datos_actuales
        /\ export_worker.filtros = ventana.filtros_consulta

\* the finished signals among the signals thread w has emitted
Finished(w) == SelectSeq(w.emitidas, LAMBDA s : s.senal = "finished")

\* C26 as the specification states it: an export started from the window
\* on a non-empty dataset the user may export, with no fault of the file
\* system or of the storage, calls the export of the service with the
\* path, the data, the filters, the user id and the role, and ends with a
\* finished signal of success, the file written and an entry in the
\* history.
C26_Original ==
    \A k \in DOMAIN ventana.trabajadores :
        LET w == ventana.trabajadores[k]
        IN  w.pc = "terminado" =>
                /\ Len(Argumentos(w)) = Len(Parametros)
                /\ Finished(w) # <<>>
                /\ Finished(w)[1].result.success
                /\ \E i \in DOMAIN archivos : archivos[i].file_path = w.file_path
                /\ \E i \in DOMAIN reportes :
                      reportes[i].usuarioGeneradorId = w.usuario_id

SlotDeServicio(r) ==
    \/ r.op \in {"aplicar_filtros", "limpiar_filtros"}
    \/ r.op \in {"exportar_csv", "exportar_excel"} /\ r.aviso = ""

\* C28 as the specification states it: at most one ExportWorker runs at a
\* time, and while one runs no slot of the window applies or clears the
\* filters, refreshes the preview or starts an export.
C28_Original ==
    [][/\ Cardinality({k \in DOMAIN ventana'.trabajadores :
                          isRunning(ventana'.trabajadores[k])}) <= 1
       /\ (EnCurso # {} /\ ret' # ret) => ~SlotDeServicio(ret')]_vars

\* ---------------------------------------------------------------------
\* The export buttons of the reports window
\* ---------------------------------------------------------------------

\* the user edits the filter widgets while no modal dialog is in front
CambiarWidgets ==
    /\ ventana.progress_dialog # "visible"
    /\ CambiarFiltros

\* the reports window with every setting of its filter widgets; the
\* progress dialog of an export is left in front until the export ends
NextBotones ==
    \/ CambiarWidgets
    \/ Clic
    \/ ExportWorker_run
    \/ actualizar_progreso
    \/ exportacion_completada

SpecBotones == InitTrabajo /\ [][NextBotones]_vars

\* C29: the CSV button and the Excel button are enabled exactly when
\* datos_actuales holds records, from the construction of the window on
\* and after every application of the filters (accepted, rejected, with
\* and without records), clearing and export; hence every export thread
\* was started on records.
C29_BotonesSegunDatos ==
    /\ ventana.btn_csv = (ventana.datos_actuales # <<>>)
    /\ ventana.btn_excel = (ventana.datos_actuales # <<>>)
    /\ \A k \in DOMAIN ventana.trabajadores :
          ventana.trabajadores[k].datos # <<>>

\* after an export the user applied filters that returned no record: the
\* buttons are disabled again
C29_Witness ==
    /\ ventana.trabajadores # <<>>
    /\ ret.op = "aplicar_filtros"
    /\ ret.aviso = "Sin resultados"
    /\ ~ventana.btn_csv
    /\ ~ventana.btn_excel

\* ---------------------------------------------------------------------
\* The query window
\* ---------------------------------------------------------------------

\* the widgets of the query window as add_filters creates them and as its
\* limpiar_filtros resets them; the three inputs hold texts
WidgetsConsultaPorDefecto ==
    [date_desde |-> AddMonths(Hoy, -3), date_hasta |-> Hoy,
     combo_tipo |-> "Todos", combo_pais |-> "Todos", combo_estado |-> "Todos",
     input_monto_min |-> <<>>, input_monto_max |-> <<>>, input_rut |-> <<>>]

\* ConsultarDatosContent.__init__; filas are the rows of results_table,
\* contador the number label_contador shows
ConsultaInicial(user_data) ==
    [activa |-> TRUE, user_data |-> user_data,
     user_rol |-> Get(user_data, "rol", "cliente"),
     widgets |-> WidgetsConsultaPorDefecto, datos_actuales |-> <<>>,
     filas |-> <<>>, contador |-> 0]

\* the value of a decimal digit, -1 for any other character
ValorDigito(c) ==
    IF \E n \in 0..9 : Digito(n) = c THEN CHOOSE n \in 0..9 : Digito(n) = c
    ELSE -1

\* the number a text of decimal digits denotes
RECURSIVE Decimal(_)
Decimal(t) ==
    IF t = <<>> THEN 0
    ELSE 10 * Decimal(SubSeq(t, 1, Len(t) - 1)) + ValorDigito(t[Len(t)])

\* float(text) of a text that holds decimal digits only, or holds a
\* letter: the number, in ten-thousandths as the amounts of the records
\* are, or ValueError
FloatTexto(t) ==
    IF t # <<>> /\ \A i \in DOMAIN t : ValorDigito(t[i]) >= 0
    THEN [ok |-> TRUE, v |-> 10000 * Decimal(t)]
    ELSE [ok |-> FALSE, v |-> 0]

\* ConsultarDatosContent.obtener_filtros
ConsultarDatos_obtener_filtros(w) ==
    LET fechas == [fecha_desde |-> w.date_desde, fecha_hasta |-> w.date_hasta,
                   estado |-> IF w.combo_estado = "Local" THEN "local"
                              ELSE IF w.combo_estado = "Bolsa" THEN "bolsa"
                              ELSE "ambos"]
        tipo == IF w.combo_tipo # "Todos"
                THEN Poner(fechas, "tipo_impuesto", w.combo_tipo) ELSE fechas
        pais == IF w.combo_pais # "Todos"
                THEN Poner(tipo, "pais", w.combo_pais) ELSE tipo
        monto_min == strip(w.input_monto_min)
        minimo == IF monto_min # <<>> /\ FloatTexto(monto_min).ok
                  THEN Poner(pais, "monto_minimo", FloatTexto(monto_min).v)
                  ELSE pais
        monto_max == strip(w.input_monto_max)
        maximo == IF monto_max # <<>> /\ FloatTexto(monto_max).ok
                  THEN Poner(minimo, "monto_maximo", FloatTexto(monto_max).v)
                  ELSE minimo
        rut == strip(w.input_rut)
    IN  IF rut # <<>> THEN Poner(maximo, "rut_cliente", rut) ELSE maximo

\* records of the last three months by montoDeclarado: 150.00 and 5000.00
PoolConsulta ==
    {Poner([DocRef EXCEPT !.fechaDeclaracion = strftime(F3)],
           "montoDeclarado", Num(1500000)),
     Poner([DocRef EXCEPT !.fechaDeclaracion = strftime(F3), !.clienteId = "c2"],
           "montoDeclarado", Num(50000000))}

\* what the user types in an amount input: nothing, 1000, 200 between
\* blanks, a text that is no number
TextosMonto ==
    {<<>>, <<"1", "0", "0", "0">>, <<" ", "2", "0", "0", " ">>, <<"a", "b">>}

InitConsulta ==
    /\ datos \in {ConIds(s) : s \in SeqsHasta(PoolConsulta, MaxDatos)}
    /\ ventana \in {ConsultaInicial(u) : u \in UserData}
    /\ InitServicio

\* the user types in the two amount inputs
CambiarMontos ==
    /\ \E lo \in TextosMonto, hi \in TextosMonto :
        /\ <<lo, hi>> # <<ventana.widgets.input_monto_min,
                          ventana.widgets.input_monto_max>>
        /\ ventana' = [ventana EXCEPT !.widgets.input_monto_min = lo,
                                      !.widgets.input_monto_max = hi]
    /\ UNCHANGED <<datos, usuarios, rut_cache, consultas, salidas, ret>>

\* ConsultarDatosContent.buscar_datos
buscar_datos ==
    LET filtros == ConsultarDatos_obtener_filtros(ventana.widgets)
        ll == [filtros |-> filtros,
               usuario_id |-> Get(ventana.user_data, "_id", None),
               rol |-> ventana.user_rol, fallan |-> {}, falla_consulta |-> FALSE]
    IN  \E out \in {obtener_datos_filtrados(ll, rut_cache, consultas)} :
        IF out.res = <<>>
        THEN /\ ventana' = [ventana EXCEPT !.datos_actuales = <<>>,
                                           !.filas = <<>>, !.contador = 0]
             /\ rut_cache' = out.cache
             /\ consultas' = out.cons
             /\ ret' = [op |-> "buscar_datos", filtros |-> filtros,
                        aviso |-> "Sin resultados"]
             /\ UNCHANGED <<datos, usuarios, salidas>>
        ELSE \E tabla \in {actualizar_tabla(out.res,
                              [filas |-> <<>>, cache |-> out.cache,
                               cons |-> out.cons], {})} :
             /\ ventana' = [ventana EXCEPT
                               !.datos_actuales = out.res,
                               !.filas = tabla.filas,
                               !.contador = IF tabla.raised THEN @
                                            ELSE Len(out.res)]
             /\ rut_cache' = tabla.cache
             /\ consultas' = tabla.cons
             /\ ret' = [op |-> "buscar_datos", filtros |-> filtros,
                        aviso |-> IF tabla.raised THEN "Error" ELSE ""]
             /\ UNCHANGED <<datos, usuarios, salidas>>

\* ConsultarDatosContent.limpiar_filtros
ConsultarDatos_limpiar_filtros ==
    /\ ventana' = [ventana EXCEPT !.widgets = WidgetsConsultaPorDefecto,
                                  !.datos_actuales = <<>>, !.filas = <<>>,
                                  !.contador = 0]
    /\ ret' = [op |-> "limpiar_filtros"]
    /\ UNCHANGED <<datos, usuarios, rut_cache, consultas, salidas>>

\* ConsultarDatosContent.refrescar_datos
refrescar_datos ==
    IF ventana.datos_actuales # <<>> THEN buscar_datos
    ELSE /\ ret' = [op |-> "refrescar_datos", aviso |-> "Información"]
         /\ UNCHANGED <<datos, usuarios, rut_cache, consultas, salidas, ventana>>

NextConsulta ==
    \/ CambiarMontos
    \/ buscar_datos
    \/ ConsultarDatos_limpiar_filtros
    \/ refrescar_datos

SpecConsulta == InitConsulta /\ [][NextConsulta]_vars

\* C30 as the specification states it: after buscar_datos every record the
\* query window shows has montoDeclarado not below the minimum amount and
\* not above the maximum amount the user entered.
C30_Original ==
    ret.op = "buscar_datos" =>
        \A i \in DOMAIN ventana.filas :
            /\ "monto_minimo" \in DOMAIN ret.filtros
                  => ventana.filas[i].monto >= ret.filtros.monto_minimo
            /\ "monto_maximo" \in DOMAIN ret.filtros
                  => ventana.filas[i].monto <= ret.filtros.monto_maximo

=============================================================================
